---- MODULE Spec2Model ----
(***************************************************************************)
(* Channel / message repositories of open-webui                            *)
(*   backend/open_webui/models/channels.py   (ChannelTable)                *)
(*   backend/open_webui/models/messages.py   (MessageTable)                *)
(*   backend/open_webui/routers/channels.py  (DM and message routes)       *)
(*   backend/open_webui/routers/pipelines.py (filter chain)                *)
(*                                                                         *)
(* The four tables are sets of rows.  Every row carries the primary key    *)
(* `id` the code draws from uuid4(), modelled by a per-table counter, so    *)
(* two rows with equal columns but different keys are two rows, as in the   *)
(* database.  Only the columns some operation of the model reads are kept  *)
(* (role, mute/pin flags, data/meta, invited_at, created_at and updated_at  *)
(* of channel_member and content/data/meta/updated_at of message are       *)
(* written by the code and never read by the operations below).            *)
(*                                                                         *)
(* Every repository method is given twice: as operators over explicit      *)
(* tables (what the method writes, what it returns), and as the action     *)
(* that applies them to the store.  A method that returns Optional[row]    *)
(* is modelled by the set of rows it may return: {} is None, and a query   *)
(* ending in `.first()` without ORDER BY may return any row of its set.    *)
(***************************************************************************)
EXTENDS Integers, Sequences, FiniteSets, TLC

---------------------------------------------------------------------------
(* Bounds of the model *)

\* the channel repository is called while time.time_ns() is below this value
MaxClock == 3
\* the message repository is called while time.time_ns() is below this value
MaxMsgClock == 6
\* concurrent sessions run while time.time_ns() is below this value
MaxConcClock == 6
\* largest `limit` passed to a paginated read
MaxLimit == 2
\* largest pipeline.priority of a filter of the registry
MaxPriority == 1
\* one thread is answered while time.time_ns() is below this value
MaxThreadClock == 56
\* model_response_handler: the clock stops after the fifth post of the
\* channel; mention lists hold up to two mentions
MaxBotClock == 8
MaxMentions == 2

\* the default page size of the message listings (limit: int = 50)
DefaultLimit == 50

---------------------------------------------------------------------------
(* Values *)

\* Python None / SQL NULL of an id or timestamp column (ids and timestamps
\* start at 1; `x if x else 0` in the code reads None as 0)
None == 0

Users == {"u1", "u2", "u3"}
\* users whose role is "admin"
Admins == {"u1"}
GroupIds == {"g1"}
\* channel.type: None/"" (standard), "group", "dm"
ChannelTypes == {"", "group", "dm"}
ReactionNames == {"up", "ok"}

\* Groups.get_group_user_ids_by_id(group_id): the user ids of a group
get_group_user_ids_by_id(group_id) ==
    IF group_id = "g1" THEN {"u2", "u3"} ELSE {}

\* request lists of user ids (duplicates allowed), and of group ids
UserIdLists == {<<>>, <<"u2">>, <<"u2", "u3">>, <<"u2", "u2">>}
GroupIdLists == {<<>>} \cup {<<g>> : g \in GroupIds}

\* set(list)
ToSet(list) == {list[i] : i \in DOMAIN list}

\* a fixed enumeration of the users, used to hand out fresh row ids
UserIdx(u) == CASE u = "u1" -> 1 [] u = "u2" -> 2 [] OTHER -> 3
Rank(u, S) == Cardinality({v \in S : UserIdx(v) < UserIdx(u)})

---------------------------------------------------------------------------
VARIABLES
    channels,   \* table channel:         rows [id, user_id, type]
    members,    \* table channel_member:  rows [id, channel_id, user_id, status,
                \*     is_active, joined_at, left_at, last_read_at]
    messages,   \* table message:         rows [id, user_id, channel_id,
                \*     reply_to_id, parent_id, created_at]
    reactions,  \* table message_reaction: rows [id, message_id, user_id, name,
                \*     created_at]
    now,        \* the next value time.time_ns() returns
    ids,        \* per table, the next fresh primary key (uuid4)
    procs,      \* concurrent sessions: per session its position and locals
    deadline,   \* calls that read the clock are made while now < deadline
    pipe,       \* the run of the pipeline filter chain: its position and locals
    bot         \* the run of model_response_handler: its position and locals,
                \*     and the meta.model_id column of table message

aux == <<procs, deadline, pipe, bot>>
vars ==
    <<channels, members, messages, reactions, now, ids, procs, deadline, pipe,
      bot>>

Procs == {"p1", "p2"}
\* a session between two calls; during a call it holds the call's locals
Idle == [pc |-> "idle", channel_id |-> None, user_id |-> "", user_ids |-> {},
         message_id |-> None, name |-> "", then_post |-> FALSE]

\* no filter chain is running
\* no model_response_handler task is running and no stored message names a model
NoHandler == [pc |-> "idle", channel_id |-> None, message_id |-> None, parent_id |-> None, user_id |-> "", model_mentions |-> <<>>, handled |-> <<>>, meta |-> {}]
NoRun == [pc |-> "idle", kind |-> "", models |-> <<>>, model_id |-> "",
          sorted_filters |-> <<>>, payload |-> <<>>, calls |-> <<>>,
          exception |-> <<>>]

\* the empty database
Init ==
    /\ channels = {}
    /\ members = {}
    /\ messages = {}
    /\ reactions = {}
    /\ now = 1
    /\ ids = [channel |-> 1, member |-> 1, message |-> 1, reaction |-> 1]
    /\ procs = [p \in Procs |-> Idle]
    /\ deadline = MaxClock
    /\ pipe = NoRun
    /\ bot = NoHandler

ChannelIds == {c.id : c \in channels}

---------------------------------------------------------------------------
(* ChannelTable over explicit tables *)

\* get_members_by_channel_id: the rows of channel_member for one channel
get_members_by_channel_id(mem, channel_id) ==
    {m \in mem : m.channel_id = channel_id}

\* the user ids that have a row in the channel
MemberIds(mem, channel_id) ==
    {m.user_id : m \in get_members_by_channel_id(mem, channel_id)}

\* the rows the filter (channel_id, user_id) selects; `.first()` picks one
\* of them, or None when there is none
MembershipRows(mem, channel_id, user_id) ==
    {m \in mem : m.channel_id = channel_id /\ m.user_id = user_id}

is_user_channel_member(mem, channel_id, user_id) ==
    MembershipRows(mem, channel_id, user_id) /= {}

\* fault injection: a union that forgets the groups
collect_user_ids_without_groups(invited_by, user_ids, group_ids) ==
    ToSet(user_ids) \cup {invited_by}

\* _collect_unique_user_ids: inviter + user_ids + members of every group
collect_unique_user_ids(invited_by, user_ids, group_ids) ==
    ToSet(user_ids) \cup {invited_by}
        \cup UNION {get_group_user_ids_by_id(g) : g \in ToSet(group_ids)}

\* _create_membership_models: one joined, active row per user id, keys fresh
create_membership_models(channel_id, user_ids, t, firstId) ==
    {[id |-> firstId + Rank(u, user_ids),
      channel_id |-> channel_id,
      user_id |-> u,
      status |-> "joined",
      is_active |-> TRUE,
      joined_at |-> t,
      left_at |-> None,
      last_read_at |-> t] : u \in user_ids}

\* insert_new_channel: the membership rows added with the channel
insert_new_channel_memberships(type, user_id, user_ids, group_ids, cid, t, firstId) ==
    IF type \in {"group", "dm"}
    THEN create_membership_models(
             cid, collect_unique_user_ids(user_id, user_ids, group_ids),
             t, firstId)
    ELSE {}

\* get_channels_by_user_id: the group/dm channels in which the user has an
\* active membership row, and the standard channels the user may read.  No
\* operation of the model archives or soft-deletes a channel, and channels
\* are created without access_control, which _has_permission reads as public
get_channels_by_user_id(chans, mem, user_id) ==
    {c \in chans :
        /\ c.type \in {"group", "dm"}
        /\ \E m \in mem : /\ m.channel_id = c.id
                           /\ m.user_id = user_id
                           /\ m.is_active = TRUE}
    \cup {c \in chans : c.type \notin {"group", "dm"}}

\* the subquery of get_dm_channel_by_user_ids: channel ids that have rows in
\* channel_member, exactly len(unique_user_ids) of them, all of them for users
\* in unique_user_ids (count and sum run over rows, not over distinct users)
DmMemberMatch(mem, channel_id, unique_user_ids) ==
    LET rows == get_members_by_channel_id(mem, channel_id) IN
    /\ rows /= {}
    /\ Cardinality(rows) = Cardinality(unique_user_ids)
    /\ Cardinality({m \in rows : m.user_id \in unique_user_ids})
           = Cardinality(unique_user_ids)

\* get_dm_channel_by_user_ids: the channels `.first()` may return (the query
\* has no ORDER BY); None when the set is empty
get_dm_channel_by_user_ids(chans, mem, user_ids) ==
    {c \in chans : c.type = "dm" /\ DmMemberMatch(mem, c.id, ToSet(user_ids))}

\* fault injection: no subtraction of the existing members
AllRequestedUserIds(requested_users, existing_users) == requested_users

\* add_members_to_channel: requested users without a row in the channel
NewUserIds(requested_users, existing_users) ==
    requested_users \ existing_users

\* add_members_to_channel: the rows it inserts, which are the list it returns
add_members_to_channel_rows(mem, channel_id, invited_by, user_ids, group_ids, t, firstId) ==
    create_membership_models(
        channel_id,
        NewUserIds(collect_unique_user_ids(invited_by, user_ids, group_ids),
                   MemberIds(mem, channel_id)),
        t, firstId)

\* remove_members_from_channel: the rows it deletes
remove_members_from_channel_rows(mem, channel_id, user_ids) ==
    {m \in mem : m.channel_id = channel_id /\ m.user_id \in ToSet(user_ids)}

\* join_channel: the row written when the existence check found none
NewMembership(channel_id, user_id, t, id) ==
    [id |-> id, channel_id |-> channel_id, user_id |-> user_id,
     status |-> "joined", is_active |-> TRUE,
     joined_at |-> t, left_at |-> None, last_read_at |-> t]

\* fault injection: a join without its existence check
JoinInsertsAlways(mem, channel_id, user_id) == TRUE

\* join_channel: whether a new row is written (the existence check failed)
JoinInserts(mem, channel_id, user_id) ==
    MembershipRows(mem, channel_id, user_id) = {}

\* fault injection: a join that re-activates the row it finds
join_channel_reactivating(mem, channel_id, user_id, t, id) ==
    IF \A m \in mem : m.channel_id /= channel_id \/ m.user_id /= user_id
    THEN mem \cup {NewMembership(channel_id, user_id, t, id)}
    ELSE {IF m.channel_id = channel_id /\ m.user_id = user_id
          THEN [m EXCEPT !.status = "joined", !.is_active = TRUE]
          ELSE m : m \in mem}

\* join_channel: the table it leaves
join_channel_members(mem, channel_id, user_id, t, id) ==
    IF JoinInserts(mem, channel_id, user_id)
    THEN mem \cup {NewMembership(channel_id, user_id, t, id)}
    ELSE mem

\* join_channel: the rows it may return
join_channel_returns(mem, channel_id, user_id, t, id) ==
    IF JoinInserts(mem, channel_id, user_id)
    THEN {NewMembership(channel_id, user_id, t, id)}
    ELSE MembershipRows(mem, channel_id, user_id)

\* fault injection: a leave that deletes the row
leave_channel_deleting(mem, membership, t) == mem \ {membership}

\* leave_channel: what it returns (False when no row was found)
leave_channel_returns(mem, channel_id, user_id) ==
    {m \in mem : m.channel_id = channel_id /\ m.user_id = user_id} /= {}

\* leave_channel: the row `.first()` found becomes 'left' and inactive
leave_channel_members(mem, membership, t) ==
    (mem \ {membership}) \cup
        {[membership EXCEPT !.status = "left", !.is_active = FALSE,
                            !.left_at = t]}

\* update_member_active_status: the row `.first()` found gets is_active
update_member_active_status_members(mem, membership, is_active) ==
    (mem \ {membership}) \cup {[membership EXCEPT !.is_active = is_active]}

\* update_member_last_read_at: the row `.first()` found gets last_read_at = now
update_member_last_read_at_members(mem, membership, t) ==
    (mem \ {membership}) \cup {[membership EXCEPT !.last_read_at = t]}

---------------------------------------------------------------------------
(* ChannelTable and the DM handlers: operations, each one transaction *)

\* ChannelTable.insert_new_channel (the channel and its membership rows are
\* added in one commit)
insert_new_channel(type, user_ids, group_ids, user_id) ==
    LET new_memberships ==
            insert_new_channel_memberships(type, user_id, user_ids, group_ids,
                                           ids.channel, now, ids.member)
    IN  /\ now < deadline
        /\ channels' = channels \cup
                {[id |-> ids.channel, user_id |-> user_id, type |-> type]}
        /\ members' = members \cup new_memberships
        /\ ids' = [ids EXCEPT !.channel = @ + 1,
                              !.member = @ + Cardinality(new_memberships)]
        /\ now' = now + 1
        /\ UNCHANGED <<messages, reactions, aux>>

\* the branch of both DM handlers that re-opens an existing DM channel:
\* the caller's membership, if any, is made active again
reopen_dm_channel(existing_channel, user_id) ==
    /\ IF MembershipRows(members, existing_channel.id, user_id) = {}
       THEN UNCHANGED members
       ELSE \E membership \in
                MembershipRows(members, existing_channel.id, user_id) :
              members' = update_member_active_status_members(
                             members, membership, TRUE)
    /\ UNCHANGED <<channels, messages, reactions, now, ids, aux>>

\* POST /channels/create (only admins create standard channels)
create_new_channel(user, type, user_ids, group_ids) ==
    LET existing == get_dm_channel_by_user_ids(channels, members,
                                               <<user>> \o user_ids)
    IN  /\ type \in {"group", "dm"} \/ user \in Admins
        /\ IF type = "dm" /\ existing /= {}
           THEN \E existing_channel \in existing :
                    reopen_dm_channel(existing_channel, user)
           ELSE insert_new_channel(type, user_ids, group_ids, user)

\* GET /channels/users/{user_id}
get_dm_channel_by_user_id(user, user_id) ==
    LET existing == get_dm_channel_by_user_ids(channels, members,
                                               <<user, user_id>>)
    IN  IF existing /= {}
        THEN \E existing_channel \in existing :
                reopen_dm_channel(existing_channel, user)
        ELSE insert_new_channel("dm", <<user_id>>, <<>>, user)

\* ChannelTable.add_members_to_channel
add_members_to_channel(channel_id, invited_by, user_ids, group_ids) ==
    LET new_memberships ==
            add_members_to_channel_rows(members, channel_id, invited_by,
                                        user_ids, group_ids, now, ids.member)
    IN  IF new_memberships = {}
        THEN UNCHANGED vars
        ELSE /\ now < deadline
             /\ members' = members \cup new_memberships
             /\ ids' = [ids EXCEPT
                          !.member = @ + Cardinality(new_memberships)]
             /\ now' = now + 1
             /\ UNCHANGED <<channels, messages, reactions, aux>>

\* ChannelTable.remove_members_from_channel (hard delete)
remove_members_from_channel(channel_id, user_ids) ==
    /\ members' = members \
            remove_members_from_channel_rows(members, channel_id, user_ids)
    /\ UNCHANGED <<channels, messages, reactions, now, ids, aux>>

\* ChannelTable.join_channel
join_channel(channel_id, user_id) ==
    IF ~JoinInserts(members, channel_id, user_id)
    THEN UNCHANGED vars
    ELSE /\ now < deadline
         /\ members' = join_channel_members(members, channel_id, user_id,
                                            now, ids.member)
         /\ ids' = [ids EXCEPT !.member = @ + 1]
         /\ now' = now + 1
         /\ UNCHANGED <<channels, messages, reactions, aux>>

\* ChannelTable.leave_channel
leave_channel(channel_id, user_id) ==
    IF MembershipRows(members, channel_id, user_id) = {}
    THEN UNCHANGED vars
    ELSE \E membership \in MembershipRows(members, channel_id, user_id) :
         /\ now < deadline
         /\ members' = leave_channel_members(members, membership, now)
         /\ now' = now + 1
         /\ UNCHANGED <<channels, messages, reactions, ids, aux>>

\* ChannelTable.update_member_active_status
update_member_active_status(channel_id, user_id, is_active) ==
    IF MembershipRows(members, channel_id, user_id) = {}
    THEN UNCHANGED vars
    ELSE \E membership \in MembershipRows(members, channel_id, user_id) :
         /\ members' = update_member_active_status_members(
                           members, membership, is_active)
         /\ UNCHANGED <<channels, messages, reactions, now, ids, aux>>

\* ChannelTable.update_member_last_read_at
update_member_last_read_at(channel_id, user_id) ==
    IF MembershipRows(members, channel_id, user_id) = {}
    THEN UNCHANGED vars
    ELSE \E membership \in MembershipRows(members, channel_id, user_id) :
         /\ now < deadline
         /\ members' = update_member_last_read_at_members(
                           members, membership, now)
         /\ now' = now + 1
         /\ UNCHANGED <<channels, messages, reactions, ids, aux>>

---------------------------------------------------------------------------
(* MessageTable over explicit tables *)

\* ids a caller can name: None, or the id of a message posted so far
KnownMessageIds == 0 .. (ids.message - 1)

\* db.get(Message, id): the primary key selects at most one row
MessageRows(msgs, id) == {m \in msgs : m.id = id}

\* the greatest created_at of a non-empty set of rows
MaxCreatedAt(rows) ==
    CHOOSE t \in {m.created_at : m \in rows} :
        \A m \in rows : m.created_at <= t

\* ORDER BY created_at DESC (rows of equal created_at come in either order)
RECURSIVE OrderByCreatedAtDesc(_)
OrderByCreatedAtDesc(rows) ==
    IF rows = {} THEN <<>>
    ELSE LET first == CHOOSE m \in rows : m.created_at = MaxCreatedAt(rows)
         IN  <<first>> \o OrderByCreatedAtDesc(rows \ {first})

\* fault injection: a page without its limit
OffsetOnly(list, skip, limit) == SubSeq(list, skip + 1, Len(list))

\* .offset(skip).limit(limit) of an ordered result
OffsetLimit(list, skip, limit) ==
    SubSeq(list, skip + 1,
           IF skip + limit < Len(list) THEN skip + limit ELSE Len(list))

\* get_thread_replies_by_message_id: rows with parent_id = id, newest first
get_thread_replies_by_message_id(msgs, id) ==
    OrderByCreatedAtDesc({m \in msgs : m.parent_id = id})

\* get_reactions_by_message_id: per emoji name its users and count
get_reactions_by_message_id(reacts, id) ==
    {[name |-> n,
      users |-> {r.user_id : r \in {x \in reacts : x.message_id = id
                                                  /\ x.name = n}},
      count |-> Cardinality({x \in reacts : x.message_id = id /\ x.name = n})]
     : n \in {r.name : r \in {x \in reacts : x.message_id = id}}}

\* the ids get_message_by_id(id) is called with from inside
\* get_message_by_id(id): the reply_to_id of the row itself, and, in
\* get_thread_replies_by_message_id(id), the reply_to_id of every row filed
\* under it (`if message.reply_to_id` skips None)
NestedLookups(msgs, id) ==
    {m.reply_to_id : m \in MessageRows(msgs, id)
                         \cup {r \in msgs : r.parent_id = id}} \ {None}

\* get_message_by_id(id), called while the calls for the ids in `active` have
\* not returned, does not return: a nested lookup is made with an id whose
\* call is still running, the store is the same, and the calls repeat until
\* the interpreter raises
RECURSIVE get_message_by_id_raises(_, _, _)
get_message_by_id_raises(msgs, id, active) ==
    IF id \in active THEN TRUE
    ELSE /\ MessageRows(msgs, id) /= {}
         /\ \E n \in NestedLookups(msgs, id) :
                get_message_by_id_raises(msgs, n, active \cup {id})

\* get_message_by_id, when it returns: None ({}) when no row has the id, else
\* the row with its reply-to message (resolved by the same call), reactions
\* and thread counts (of the thread replies only the number and the newest
\* created_at are read)
RECURSIVE get_message_by_id(_, _, _)
get_message_by_id(msgs, reacts, id) ==
    IF MessageRows(msgs, id) = {} THEN {}
    ELSE LET message == CHOOSE m \in MessageRows(msgs, id) : TRUE
             thread_replies == get_thread_replies_by_message_id(msgs, id)
         IN  {[id |-> message.id,
               user_id |-> message.user_id,
               channel_id |-> message.channel_id,
               reply_to_id |-> message.reply_to_id,
               parent_id |-> message.parent_id,
               created_at |-> message.created_at,
               reply_to_message |->
                   IF message.reply_to_id /= None
                   THEN get_message_by_id(msgs, reacts, message.reply_to_id)
                   ELSE {},
               latest_reply_at |->
                   IF thread_replies /= <<>>
                   THEN thread_replies[1].created_at ELSE None,
               reply_count |-> Len(thread_replies),
               reactions |-> get_reactions_by_message_id(reacts, id)]}

\* MessageReplyToResponse: a row with its reply-to message
MessageReplyToResponse(msgs, reacts, message) ==
    [id |-> message.id,
     user_id |-> message.user_id,
     channel_id |-> message.channel_id,
     reply_to_id |-> message.reply_to_id,
     parent_id |-> message.parent_id,
     created_at |-> message.created_at,
     reply_to_message |->
         IF message.reply_to_id /= None
         THEN get_message_by_id(msgs, reacts, message.reply_to_id)
         ELSE {}]

\* get_messages_by_parent_id: a page of the replies filed under parent_id in
\* the channel, newest first; the parent row is appended to a page that holds
\* fewer than `limit` replies
get_messages_by_parent_id(msgs, reacts, channel_id, parent_id, skip, limit) ==
    IF MessageRows(msgs, parent_id) = {} THEN <<>>
    ELSE LET message == CHOOSE m \in MessageRows(msgs, parent_id) : TRUE
             page == OffsetLimit(
                         OrderByCreatedAtDesc(
                             {m \in msgs : m.channel_id = channel_id
                                           /\ m.parent_id = parent_id}),
                         skip, limit)
             all_messages == IF Len(page) < limit
                             THEN Append(page, message) ELSE page
         IN  [i \in DOMAIN all_messages |->
                 MessageReplyToResponse(msgs, reacts, all_messages[i])]

\* get_messages_by_parent_id raises: resolving the reply-to message of a row
\* of the page does
get_messages_by_parent_id_raises(msgs, channel_id, parent_id, skip, limit) ==
    LET page == get_messages_by_parent_id(msgs, {}, channel_id, parent_id,
                                          skip, limit)
    IN  \E i \in DOMAIN page :
            /\ page[i].reply_to_id /= None
            /\ get_message_by_id_raises(msgs, page[i].reply_to_id, {})

\* get_messages_by_channel_id, when it returns: a page of the top-level
\* messages (parent_id None) of the channel, newest first
get_messages_by_channel_id(msgs, reacts, channel_id, skip, limit) ==
    LET all_messages ==
            OffsetLimit(
                OrderByCreatedAtDesc(
                    {m \in msgs : m.channel_id = channel_id
                                  /\ m.parent_id = None}),
                skip, limit)
    IN  [i \in DOMAIN all_messages |->
            MessageReplyToResponse(msgs, reacts, all_messages[i])]

\* get_messages_by_channel_id raises: resolving the reply-to message of a row
\* of the page does
get_messages_by_channel_id_raises(msgs, channel_id, skip, limit) ==
    LET page == get_messages_by_channel_id(msgs, {}, channel_id, skip, limit)
    IN  \E i \in DOMAIN page :
            /\ page[i].reply_to_id /= None
            /\ get_message_by_id_raises(msgs, page[i].reply_to_id, {})

\* fault injection: an unread count that also counts thread replies
get_unread_count_with_replies(msgs, channel_id, user_id, last_read_at) ==
    Cardinality({m \in msgs :
        /\ m.channel_id = channel_id
        /\ m.created_at > (IF last_read_at /= None THEN last_read_at ELSE 0)
        /\ m.user_id /= user_id})

\* get_unread_message_count: top-level messages of the channel created after
\* last_read_at (None counts as 0) by somebody else
get_unread_message_count(msgs, channel_id, user_id, last_read_at) ==
    Cardinality({m \in msgs :
        /\ m.channel_id = channel_id
        /\ m.parent_id = None
        /\ m.created_at > (IF last_read_at /= None THEN last_read_at ELSE 0)
        /\ m.user_id /= user_id})

\* fault injection: an existence check that finds nothing
NoExistingReactions(reacts, id, user_id, name) == {}

\* add_reaction_to_message: the rows its existence check selects
ExistingReactions(reacts, id, user_id, name) ==
    {r \in reacts : r.message_id = id /\ r.user_id = user_id /\ r.name = name}

NewReaction(id, user_id, name, reaction_id, t) ==
    [id |-> reaction_id, message_id |-> id, user_id |-> user_id, name |-> name,
     created_at |-> t]

\* add_reaction_to_message: the table it leaves
add_reaction_to_message_rows(reacts, id, user_id, name, reaction_id, t) ==
    IF ExistingReactions(reacts, id, user_id, name) /= {}
    THEN reacts
    ELSE reacts \cup {NewReaction(id, user_id, name, reaction_id, t)}

\* add_reaction_to_message: the rows it may return
add_reaction_to_message_returns(reacts, id, user_id, name, reaction_id, t) ==
    IF ExistingReactions(reacts, id, user_id, name) /= {}
    THEN ExistingReactions(reacts, id, user_id, name)
    ELSE {NewReaction(id, user_id, name, reaction_id, t)}

\* remove_reaction_by_id_and_user_id_and_name: the table it leaves
remove_reaction_rows(reacts, id, user_id, name) ==
    reacts \ ExistingReactions(reacts, id, user_id, name)

\* remove_reaction_by_id_and_user_id_and_name: what it returns
remove_reaction_returns(reacts, id, user_id, name) == TRUE

\* delete_message_by_id: the message table it leaves
delete_message_by_id_messages(msgs, id) == msgs \ MessageRows(msgs, id)

\* fault injection: a delete that leaves the reactions
delete_message_keeping_reactions(reacts, id) == reacts

\* delete_message_by_id: the reaction table it leaves
delete_message_by_id_reactions(reacts, id) ==
    reacts \ {r \in reacts : r.message_id = id}

---------------------------------------------------------------------------
(* MessageTable: operations, each one transaction *)

\* MessageTable.insert_new_message: the author is joined first
\* (Channels.join_channel commits in its own session), then the row is added
insert_new_message(channel_id, user_id, parent_id, reply_to_id) ==
    LET joins == JoinInserts(members, channel_id, user_id)
        ts == IF joins THEN now + 1 ELSE now
    IN  /\ ts < deadline
        /\ members' = join_channel_members(members, channel_id, user_id,
                                           now, ids.member)
        /\ messages' = messages \cup
                {[id |-> ids.message, user_id |-> user_id,
                  channel_id |-> channel_id, reply_to_id |-> reply_to_id,
                  parent_id |-> parent_id, created_at |-> ts]}
        /\ ids' = [ids EXCEPT !.message = @ + 1,
                              !.member = IF joins THEN @ + 1 ELSE @]
        /\ now' = ts + 1
        /\ UNCHANGED <<channels, reactions, aux>>

\* MessageTable.add_reaction_to_message
add_reaction_to_message(id, user_id, name) ==
    IF ExistingReactions(reactions, id, user_id, name) /= {}
    THEN UNCHANGED vars
    ELSE /\ now < deadline
         /\ reactions' = add_reaction_to_message_rows(
                             reactions, id, user_id, name, ids.reaction, now)
         /\ ids' = [ids EXCEPT !.reaction = @ + 1]
         /\ now' = now + 1
         /\ UNCHANGED <<channels, members, messages, aux>>

\* MessageTable.remove_reaction_by_id_and_user_id_and_name
remove_reaction_by_id_and_user_id_and_name(id, user_id, name) ==
    /\ reactions' = remove_reaction_rows(reactions, id, user_id, name)
    /\ UNCHANGED <<channels, members, messages, now, ids, aux>>

\* MessageTable.delete_message_by_id: the row and its reactions, one commit
delete_message_by_id(id) ==
    /\ messages' = delete_message_by_id_messages(messages, id)
    /\ reactions' = delete_message_by_id_reactions(reactions, id)
    /\ UNCHANGED <<channels, members, now, ids, aux>>

---------------------------------------------------------------------------
(* The channel repository, called one operation at a time *)

NextChan ==
    \/ \E user \in Users, type \in ChannelTypes,
          user_ids \in UserIdLists, group_ids \in GroupIdLists :
            create_new_channel(user, type, user_ids, group_ids)
    \/ \E user \in Users, user_id \in Users :
            get_dm_channel_by_user_id(user, user_id)
    \/ \E c \in ChannelIds, invited_by \in Users,
          user_ids \in UserIdLists, group_ids \in GroupIdLists :
            add_members_to_channel(c, invited_by, user_ids, group_ids)
    \/ \E c \in ChannelIds, user_ids \in UserIdLists :
            remove_members_from_channel(c, user_ids)
    \/ \E c \in ChannelIds, u \in Users : join_channel(c, u)
    \/ \E c \in ChannelIds, u \in Users : leave_channel(c, u)
    \/ \E c \in ChannelIds, u \in Users :
            insert_new_message(c, u, None, None)

Spec == Init /\ [][NextChan]_vars

---------------------------------------------------------------------------
(* The message repository, called one operation at a time, on a store that  *)
(* holds a group channel of u1 and u2 and a standard channel                *)

\* the store after create_new_channel("u1", "group", ["u2"], []) and
\* create_new_channel("u1", "", [], []) on the empty database
InitMsg ==
    /\ channels = {[id |-> 1, user_id |-> "u1", type |-> "group"],
                   [id |-> 2, user_id |-> "u1", type |-> ""]}
    /\ members = insert_new_channel_memberships(
                     "group", "u1", <<"u2">>, <<>>, 1, 1, 1)
    /\ messages = {}
    /\ reactions = {}
    /\ now = 3
    /\ ids = [channel |-> 3, member |-> 3, message |-> 1, reaction |-> 1]
    /\ procs = [p \in Procs |-> Idle]
    /\ deadline = MaxMsgClock
    /\ pipe = NoRun
    /\ bot = NoHandler

\* messages, reactions and deletion
NextReact ==
    \/ \E c \in ChannelIds, u \in Users :
            insert_new_message(c, u, None, None)
    \/ \E id \in KnownMessageIds \ {None}, u \in Users, name \in ReactionNames :
            add_reaction_to_message(id, u, name)
    \/ \E id \in KnownMessageIds \ {None}, u \in Users, name \in ReactionNames :
            remove_reaction_by_id_and_user_id_and_name(id, u, name)
    \/ \E id \in KnownMessageIds \ {None} : delete_message_by_id(id)

SpecReact == InitMsg /\ [][NextReact]_vars

\* messages, threads and deletion
NextThread ==
    \/ \E c \in ChannelIds, u \in Users,
          parent_id \in KnownMessageIds, reply_to_id \in KnownMessageIds :
            insert_new_message(c, u, parent_id, reply_to_id)
    \/ \E id \in KnownMessageIds \ {None} : delete_message_by_id(id)

SpecThread == InitMsg /\ [][NextThread]_vars

\* messages, threads and read markers
NextUnread ==
    \/ \E c \in ChannelIds, u \in Users, parent_id \in KnownMessageIds :
            insert_new_message(c, u, parent_id, None)
    \/ \E c \in ChannelIds, u \in Users : update_member_last_read_at(c, u)
    \/ \E id \in KnownMessageIds \ {None} : delete_message_by_id(id)

SpecUnread == InitMsg /\ [][NextUnread]_vars

---------------------------------------------------------------------------
(* Properties of the channel repository (specification Spec) *)

\* a request list whose set is S
ListOf(S) ==
    CHOOSE list \in [1 .. Cardinality(S) -> S] : ToSet(list) = S

\* C1: DM idempotence: for every channel c of type dm (here only those that
\* still have a member), the lookup get_dm_channel_by_user_ids called with
\* exactly the member user ids of c returns c, and cannot return another
\* channel; a create-DM request for that member set then re-opens c
C1_DmLookupReturnsChannel ==
    \A c \in channels :
        (c.type = "dm" /\ MemberIds(members, c.id) /= {}) =>
            get_dm_channel_by_user_ids(
                channels, members, ListOf(MemberIds(members, c.id))) = {c}

\* C2: at most one channel_member row for each (channel_id, user_id) pair in
\* every state reached by operations called one after the other
C2_AtMostOneMembershipRow ==
    \A c \in ChannelIds, u \in Users :
        Cardinality(MembershipRows(members, c, u)) <= 1

\* a user holds a row written after the channel was created (by join_channel,
\* add_members_to_channel or the auto-join of insert_new_message), and it is
\* the only row of the pair
C2_Witness ==
    \E c \in channels, m \in members :
        /\ m.channel_id = c.id
        /\ m.user_id /= c.user_id
        /\ m.joined_at = 2
        /\ MembershipRows(members, c.id, m.user_id) = {m}

\* the users insert_new_channel is asked to enrol, read off the request
C9_Enrolled(user_id, user_ids, group_ids) ==
    {u \in Users :
        \/ u = user_id
        \/ \E i \in DOMAIN user_ids : user_ids[i] = u
        \/ \E j \in DOMAIN group_ids :
               u \in get_group_user_ids_by_id(group_ids[j])}

\* whatever the request, the rows insert_new_channel adds in the current state
C9_Rows ==
    \A type \in ChannelTypes, user_id \in Users,
       user_ids \in UserIdLists, group_ids \in GroupIdLists :
        LET rows == insert_new_channel_memberships(
                        type, user_id, user_ids, group_ids,
                        ids.channel, now, ids.member)
            enrolled == C9_Enrolled(user_id, user_ids, group_ids)
        IN  IF type \in {"group", "dm"}
            THEN /\ {r.user_id : r \in rows} = enrolled
                 /\ Cardinality(rows) = Cardinality(enrolled)
                 /\ \A r \in rows : /\ r.channel_id = ids.channel
                                    /\ r.status = "joined"
                                    /\ r.is_active = TRUE
                 /\ (user_id = "u1" /\ user_ids = <<"u2", "u3">>
                        /\ group_ids = <<>>) => Cardinality(rows) = 3
            ELSE rows = {}

\* a step that adds a channel row adds, for a group or dm channel, rows of
\* that channel only, one per user, joined and active, the owner among them,
\* and for any other type no row
C9_Step ==
    channels' /= channels =>
        LET c == CHOOSE x \in channels' \ channels : TRUE
            rows == members' \ members
        IN  IF c.type \in {"group", "dm"}
            THEN /\ c.user_id \in {r.user_id : r \in rows}
                 /\ Cardinality(rows) = Cardinality({r.user_id : r \in rows})
                 /\ \A r \in rows : /\ r.channel_id = c.id
                                    /\ r.status = "joined"
                                    /\ r.is_active = TRUE
            ELSE rows = {}

\* C9: insert_new_channel with type group or dm creates exactly one membership
\* row for each distinct user of {owner} + user_ids + members of the groups,
\* each joined and active (owner u1 with [u2, u3] gives 3 rows); with any
\* other type it creates none
C9_ChannelMemberships == []C9_Rows /\ [][C9_Step]_vars

\* a group or dm channel was created from sources that overlap (three member
\* rows written at once), and a standard channel without rows exists
C9_Witness ==
    /\ \E c \in channels :
        /\ c.type \in {"group", "dm"}
        /\ Cardinality(get_members_by_channel_id(members, c.id)) = 3
        /\ \A m \in get_members_by_channel_id(members, c.id) :
               m.joined_at = 1 /\ m.status = "joined"
    /\ \E c \in channels :
        c.type = "" /\ get_members_by_channel_id(members, c.id) = {}

\* C10: add_members_to_channel inserts rows only for requested users without
\* a row in the channel, leaves every existing row as it is (a 'left' row
\* included), and an identical second call inserts nothing and returns []
C10_AddMembersIdempotent ==
    \A c \in ChannelIds, invited_by \in Users,
       user_ids \in UserIdLists, group_ids \in GroupIdLists :
        LET first == add_members_to_channel_rows(
                         members, c, invited_by, user_ids, group_ids,
                         now, ids.member)
            after == members \cup first
            second == add_members_to_channel_rows(
                          after, c, invited_by, user_ids, group_ids,
                          now + 1, ids.member + Cardinality(first))
            requested == collect_unique_user_ids(invited_by, user_ids,
                                                 group_ids)
        IN  /\ {r.user_id : r \in first}
                   = {u \in requested : MembershipRows(members, c, u) = {}}
            /\ Cardinality(first) = Cardinality({r.user_id : r \in first})
            /\ \A r \in first : r.channel_id = c /\ r.status = "joined"
            /\ first \cap members = {}
            /\ \A u \in Users :
                   MembershipRows(members, c, u) /= {} =>
                       MembershipRows(after, c, u) = MembershipRows(members, c, u)
            /\ second = {}

\* a channel holds a 'left' row of one user and no row of another, so that a
\* request naming both inserts exactly the second
C10_Witness ==
    \E m \in members :
        /\ m.status = "left"
        /\ m.user_id = "u2"
        /\ MembershipRows(members, m.channel_id, "u3") = {}
        /\ {r.user_id : r \in add_members_to_channel_rows(
                members, m.channel_id, "u1", <<"u2", "u3">>, <<>>,
                now, ids.member)} \subseteq {"u1", "u3"}
        /\ "u3" \in {r.user_id : r \in add_members_to_channel_rows(
                members, m.channel_id, "u1", <<"u2", "u3">>, <<>>,
                now, ids.member)}

\* C11: join_channel is idempotent: a row that exists for (channel, user) is
\* returned with every field as stored and nothing is written, also when its
\* status is 'left'; only without a row is one inserted, joined and active
C11_JoinIdempotent ==
    \A c \in ChannelIds, u \in Users :
        LET rows == MembershipRows(members, c, u)
            after == join_channel_members(members, c, u, now, ids.member)
            returns == join_channel_returns(members, c, u, now, ids.member)
        IN  IF rows /= {}
            THEN /\ after = members
                 /\ returns /= {}
                 /\ returns \subseteq rows
            ELSE /\ members \subseteq after
                 /\ after \ members = returns
                 /\ Cardinality(returns) = 1
                 /\ \A r \in returns : /\ r.channel_id = c
                                       /\ r.user_id = u
                                       /\ r.status = "joined"
                                       /\ r.is_active = TRUE
                                       /\ r.left_at = None

\* a user left a channel, and joining again returns the 'left' row as it is
C11_Witness ==
    \E m \in members :
        /\ m.status = "left"
        /\ m.is_active = FALSE
        /\ join_channel_returns(
               members, m.channel_id, m.user_id, now, ids.member) = {m}
        /\ join_channel_members(
               members, m.channel_id, m.user_id, now, ids.member) = members

\* whatever the pair, what leave_channel does to it in the current state
C12_State ==
    \A c \in ChannelIds, u \in Users :
        LET rows == MembershipRows(members, c, u)
        IN  IF rows = {}
            THEN leave_channel_returns(members, c, u) = FALSE
            ELSE /\ leave_channel_returns(members, c, u) = TRUE
                 /\ \A membership \in rows :
                      LET after == leave_channel_members(
                                       members, membership, now)
                      IN  /\ Cardinality(after) = Cardinality(members)
                          /\ is_user_channel_member(after, c, u)
                          /\ after \ members \subseteq
                                {[membership EXCEPT !.status = "left",
                                                    !.is_active = FALSE,
                                                    !.left_at = now]}
                          /\ members \ after \subseteq {membership}
                          /\ \A m \in MembershipRows(after, c, u) :
                                /\ m.status = "left"
                                /\ m.is_active = FALSE
                                /\ m.left_at = now

\* a step that turns a row to the status 'left' keeps the number of rows, and
\* the row differs from the one it replaces in status, is_active and left_at
C12_Step ==
    \A new \in members' \ members :
        (/\ new.status = "left"
         /\ \A old \in members : old.id = new.id => old.status /= "left") =>
            /\ Cardinality(members') = Cardinality(members)
            /\ \E old \in members \ members' :
                   new = [old EXCEPT !.status = "left", !.is_active = FALSE,
                                     !.left_at = now]

\* C12: leave_channel on an existing membership sets status 'left', is_active
\* false and left_at, keeps the row (same number of rows, the user is still a
\* member on lookup) and returns True; without a row it returns False
C12_LeaveKeepsRow == []C12_State /\ [][C12_Step]_vars

\* a member left: the row is there, 'left', inactive, stamped after the join
C12_Witness ==
    \E m \in members :
        /\ m.status = "left"
        /\ m.is_active = FALSE
        /\ m.left_at > m.joined_at
        /\ is_user_channel_member(members, m.channel_id, m.user_id)
        /\ \E u \in Users : ~leave_channel_returns(members, m.channel_id, u)

---------------------------------------------------------------------------
(* Properties of the message repository *)

\* the rows of message_reaction for one (message_id, user_id, name)
C5_Rows(reacts, id, user_id, name) ==
    {r \in reacts : r.message_id = id /\ r.user_id = user_id /\ r.name = name}

\* C5 (specification SpecReact): for every (message_id, user_id, name),
\* add_reaction_to_message called twice in sequence leaves exactly one row for
\* the tuple and the second call returns the row the first returned; removing
\* a tuple that has no row returns True and leaves the table unchanged
C5_ReactionIdempotent ==
    \A id \in 1 .. ids.message, user_id \in Users, name \in ReactionNames :
        LET first_rows == add_reaction_to_message_rows(
                              reactions, id, user_id, name, ids.reaction, now)
            first_returns == add_reaction_to_message_returns(
                              reactions, id, user_id, name, ids.reaction, now)
            second_rows == add_reaction_to_message_rows(
                              first_rows, id, user_id, name,
                              ids.reaction + 1, now + 1)
            second_returns == add_reaction_to_message_returns(
                              first_rows, id, user_id, name,
                              ids.reaction + 1, now + 1)
        IN  /\ Cardinality(C5_Rows(second_rows, id, user_id, name)) = 1
            /\ second_rows = first_rows
            /\ Cardinality(first_returns) = 1
            /\ second_returns = first_returns
            /\ C5_Rows(reactions, id, user_id, name) = {} =>
                   /\ remove_reaction_rows(reactions, id, user_id, name)
                          = reactions
                   /\ remove_reaction_returns(reactions, id, user_id, name)
                          = TRUE

\* a reaction was added, adding it again returns that row, and another user
\* has no row for the same message and name
C5_Witness ==
    \E r \in reactions, u \in Users :
        /\ add_reaction_to_message_returns(
               reactions, r.message_id, r.user_id, r.name, ids.reaction, now)
               = {r}
        /\ C5_Rows(reactions, r.message_id, u, r.name) = {}

\* a step that deletes a message row leaves no row and no reaction of its id
C6_Step ==
    (messages' /= messages /\ messages' \subseteq messages) =>
        \A m \in messages \ messages' :
            /\ get_message_by_id(messages', reactions', m.id) = {}
            /\ \A r \in reactions' : r.message_id /= m.id

\* C6 (specification SpecReact): after delete_message_by_id(m.id),
\* get_message_by_id(m.id) returns None and no message_reaction row with
\* message_id = m.id remains, whatever reactions were added before
C6_DeleteRemovesMessageAndReactions == [][C6_Step]_vars

\* the only message ever posted received a reaction and was deleted
C6_Witness ==
    /\ ids.message = 2
    /\ ids.reaction = 2
    /\ messages = {}
    /\ reactions = {}

\* the items of a page that are not the parent
C7_Replies(page, parent_id) ==
    {i \in DOMAIN page : page[i].id /= parent_id}

C8_Unread(msgs, channel_id, user_id, t) ==
    {m \in msgs : /\ m.channel_id = channel_id
                  /\ m.parent_id = None
                  /\ m.user_id /= user_id
                  /\ m.created_at > t}

\* the count is the number of those messages (a null marker reads as 0), and
\* a marker set now leaves no message posted so far unread
C8_State ==
    \A c \in ChannelIds, u \in Users :
        /\ \A t \in 0 .. now :
               get_unread_message_count(messages, c, u, t)
                   = Cardinality(C8_Unread(messages, c, u, t))
        /\ \A membership \in MembershipRows(members, c, u) :
               \A m \in MembershipRows(
                      update_member_last_read_at_members(
                          members, membership, now), c, u) :
                   /\ m.last_read_at = now
                   /\ get_unread_message_count(
                          messages, c, u, m.last_read_at) = 0

\* a step that posts a message raises the count of a member by one when the
\* message is top-level, in the member's channel and by somebody else, and
\* leaves it as it is otherwise
C8_Step ==
    (messages' /= messages /\ messages \subseteq messages') =>
        \A new \in messages' \ messages, m \in members :
            get_unread_message_count(
                messages', m.channel_id, m.user_id, m.last_read_at)
              = get_unread_message_count(
                    messages, m.channel_id, m.user_id, m.last_read_at)
                + (IF /\ new.channel_id = m.channel_id
                      /\ new.parent_id = None
                      /\ new.user_id /= m.user_id
                   THEN 1 ELSE 0)

\* C8 (specification SpecUnread): get_unread_message_count(c, u, last_read_at)
\* is the number of top-level messages of c created after last_read_at (0 if
\* null) by authors other than u; after update_member_last_read_at(c, u) the
\* count under the new marker is 0 for everything posted before, every later
\* top-level message by another user raises it by exactly one, and thread
\* replies and u's own messages never raise it
C8_UnreadAcrossMarker == []C8_State /\ [][C8_Step]_vars

\* u1 moved the marker over one message of u2 and u2 posted another one
C8_Witness ==
    \E m \in MembershipRows(members, 1, "u1") :
        /\ m.last_read_at > m.joined_at
        /\ \E old \in messages : /\ old.channel_id = 1
                                 /\ old.user_id = "u2"
                                 /\ old.parent_id = None
                                 /\ old.created_at < m.last_read_at
        /\ get_unread_message_count(messages, 1, "u1", m.last_read_at) = 1
        /\ get_unread_message_count(messages, 1, "u1", m.joined_at) = 2

\* C16 (specification SpecThread): for every message m, get_message_by_id(m.id)
\* returns reply_count = the number of stored messages with parent_id = m.id
\* and latest_reply_at = the greatest created_at among them (None when there
\* are none), so that every reply posted under m raises the count by one;
\* get_messages_by_channel_id lists a top-level message once and a reply never
C16_ReplyCountAndListing ==
    \A m \in messages :
        LET replies == {r \in messages : r.parent_id = m.id}
            listing == get_messages_by_channel_id(
                           messages, reactions, m.channel_id, 0, DefaultLimit)
        IN  /\ ~get_message_by_id_raises(messages, m.id, {})
            /\ \A detail \in get_message_by_id(messages, reactions, m.id) :
                   /\ detail.reply_count = Cardinality(replies)
                   /\ detail.latest_reply_at =
                          IF replies = {} THEN None ELSE MaxCreatedAt(replies)
            /\ ~get_messages_by_channel_id_raises(
                    messages, m.channel_id, 0, DefaultLimit)
            /\ Cardinality({i \in DOMAIN listing : listing[i].id = m.id})
                   = IF m.parent_id = None THEN 1 ELSE 0

\* a lookup that meets a pointer to a deleted message returns: the detail of
\* a message whose reply_to_id is deleted has reply_to_message None, and the
\* thread page of a deleted parent is empty
C17_State ==
    /\ \A m \in messages :
            (m.reply_to_id /= None /\ MessageRows(messages, m.reply_to_id) = {})
                => /\ ~get_message_by_id_raises(messages, m.id, {})
                   /\ get_message_by_id(messages, reactions, m.id) /= {}
                   /\ \A detail \in get_message_by_id(messages, reactions, m.id) :
                          detail.reply_to_message = {}
    /\ \A c \in ChannelIds, parent_id \in KnownMessageIds \ {None} :
            MessageRows(messages, parent_id) = {}
                => /\ ~get_messages_by_parent_id_raises(
                           messages, c, parent_id, 0, DefaultLimit)
                   /\ get_messages_by_parent_id(messages, reactions, c,
                                                parent_id, 0, DefaultLimit) = <<>>

\* a delete removes one message row and the reactions to it; the rows that
\* point to it stay as they are
C17_Step ==
    (messages' /= messages /\ messages' \subseteq messages) =>
        /\ Cardinality(messages \ messages') = 1
        /\ reactions' = {r \in reactions :
                            \A m \in messages \ messages' : r.message_id /= m.id}
        /\ \A x \in messages, m \in messages \ messages' :
               (x.parent_id = m.id \/ x.reply_to_id = m.id) /\ x /= m
                   => x \in messages'

\* C17 (specification SpecThread): delete_message_by_id(m) removes only m and
\* the reactions to m; messages whose parent_id or reply_to_id is m stay
\* stored with the pointer unchanged, and every later lookup that meets such
\* a pointer returns without raising: get_message_by_id of a message whose
\* reply_to_id is deleted gives reply_to_message None, and
\* get_messages_by_parent_id of a deleted parent gives []
C17_DeleteLeavesDanglingPointers == []C17_State /\ [][C17_Step]_vars

---------------------------------------------------------------------------
(* Concurrent sessions.  Each repository method runs in its own database    *)
(* session: the existence query and the commit of the insert are two steps, *)
(* and steps of different sessions (worker processes on one database)       *)
(* interleave.  The tables declare no constraint besides the primary key    *)
(* `id`, so a commit never fails on the columns of the row.                 *)

\* the call skips join_channel and goes straight to the message row
insert_without_join(p, channel_id, user_id, then_post) ==
    /\ procs[p].pc = "idle"
    /\ procs' = [procs EXCEPT ![p] =
          [Idle EXCEPT !.pc = "message_insert",
                       !.channel_id = channel_id, !.user_id = user_id]]
    /\ UNCHANGED <<channels, members, messages, reactions, now, ids, deadline, pipe, bot>>

\* join_channel up to its existence query; then_post marks the call made by
\* insert_new_message, which goes on to add the message
join_channel_query(p, channel_id, user_id, then_post) ==
    /\ procs[p].pc = "idle"
    /\ procs' = [procs EXCEPT ![p] =
          IF JoinInserts(members, channel_id, user_id)
          THEN [Idle EXCEPT !.pc = "join_insert", !.channel_id = channel_id,
                            !.user_id = user_id, !.then_post = then_post]
          ELSE IF then_post
          THEN [Idle EXCEPT !.pc = "message_insert",
                            !.channel_id = channel_id, !.user_id = user_id]
          ELSE Idle]
    /\ UNCHANGED <<channels, members, messages, reactions, now, ids, deadline, pipe, bot>>

\* ChannelTable.join_channel called by a session
join_channel_begin(p, channel_id, user_id) ==
    join_channel_query(p, channel_id, user_id, FALSE)

\* MessageTable.insert_new_message called by a session
insert_new_message_begin(p, channel_id, user_id) ==
    join_channel_query(p, channel_id, user_id, TRUE)

\* join_channel: db.add(new_membership); db.commit()
join_channel_commit(p) ==
    /\ procs[p].pc = "join_insert"
    /\ now < deadline
    /\ members' = members \cup
          {NewMembership(procs[p].channel_id, procs[p].user_id,
                         now, ids.member)}
    /\ ids' = [ids EXCEPT !.member = @ + 1]
    /\ now' = now + 1
    /\ procs' = [procs EXCEPT ![p] =
          IF procs[p].then_post
          THEN [procs[p] EXCEPT !.pc = "message_insert", !.then_post = FALSE]
          ELSE Idle]
    /\ UNCHANGED <<channels, messages, reactions, deadline, pipe, bot>>

\* insert_new_message: db.add(result); db.commit()
insert_new_message_commit(p) ==
    /\ procs[p].pc = "message_insert"
    /\ now < deadline
    /\ messages' = messages \cup
          {[id |-> ids.message, user_id |-> procs[p].user_id,
            channel_id |-> procs[p].channel_id, reply_to_id |-> None,
            parent_id |-> None, created_at |-> now]}
    /\ ids' = [ids EXCEPT !.message = @ + 1]
    /\ now' = now + 1
    /\ procs' = [procs EXCEPT ![p] = Idle]
    /\ UNCHANGED <<channels, members, reactions, deadline, pipe, bot>>

\* add_members_to_channel up to new_user_ids
add_members_to_channel_begin(p, channel_id, invited_by, user_ids, group_ids) ==
    LET new_user_ids ==
            NewUserIds(collect_unique_user_ids(invited_by, user_ids, group_ids),
                       MemberIds(members, channel_id))
    IN  /\ procs[p].pc = "idle"
        /\ procs' = [procs EXCEPT ![p] =
              IF new_user_ids = {} THEN Idle
              ELSE [Idle EXCEPT !.pc = "add_members_insert",
                                !.channel_id = channel_id,
                                !.user_ids = new_user_ids]]
        /\ UNCHANGED <<channels, members, messages, reactions, now, ids,
                       deadline, pipe, bot>>

\* add_members_to_channel: db.add_all(new_memberships); db.commit()
add_members_to_channel_commit(p) ==
    /\ procs[p].pc = "add_members_insert"
    /\ now < deadline
    /\ members' = members \cup
          create_membership_models(procs[p].channel_id, procs[p].user_ids,
                                   now, ids.member)
    /\ ids' = [ids EXCEPT !.member = @ + Cardinality(procs[p].user_ids)]
    /\ now' = now + 1
    /\ procs' = [procs EXCEPT ![p] = Idle]
    /\ UNCHANGED <<channels, messages, reactions, deadline, pipe, bot>>

\* add_reaction_to_message up to its existence query
add_reaction_to_message_begin(p, id, user_id, name) ==
    /\ procs[p].pc = "idle"
    /\ procs' = [procs EXCEPT ![p] =
          IF ExistingReactions(reactions, id, user_id, name) /= {} THEN Idle
          ELSE [Idle EXCEPT !.pc = "reaction_insert", !.message_id = id,
                            !.user_id = user_id, !.name = name]]
    /\ UNCHANGED <<channels, members, messages, reactions, now, ids, deadline, pipe, bot>>

\* add_reaction_to_message: db.add(result); db.commit()
add_reaction_to_message_commit(p) ==
    /\ procs[p].pc = "reaction_insert"
    /\ now < deadline
    /\ reactions' = reactions \cup
          {NewReaction(procs[p].message_id, procs[p].user_id, procs[p].name,
                       ids.reaction, now)}
    /\ ids' = [ids EXCEPT !.reaction = @ + 1]
    /\ now' = now + 1
    /\ procs' = [procs EXCEPT ![p] = Idle]
    /\ UNCHANGED <<channels, members, messages, deadline, pipe, bot>>

\* the store of InitMsg after insert_new_message(1, "u1", None, None)
InitConc ==
    /\ channels = {[id |-> 1, user_id |-> "u1", type |-> "group"],
                   [id |-> 2, user_id |-> "u1", type |-> ""]}
    /\ members = insert_new_channel_memberships(
                     "group", "u1", <<"u2">>, <<>>, 1, 1, 1)
    /\ messages = {[id |-> 1, user_id |-> "u1", channel_id |-> 1,
                    reply_to_id |-> None, parent_id |-> None,
                    created_at |-> 3]}
    /\ reactions = {}
    /\ now = 4
    /\ ids = [channel |-> 3, member |-> 3, message |-> 2, reaction |-> 1]
    /\ procs = [p \in Procs |-> Idle]
    /\ deadline = MaxConcClock
    /\ pipe = NoRun
    /\ bot = NoHandler

NextConc ==
    \E p \in Procs :
        \/ \E c \in ChannelIds, u \in Users : join_channel_begin(p, c, u)
        \/ \E c \in ChannelIds, u \in Users : insert_new_message_begin(p, c, u)
        \/ join_channel_commit(p)
        \/ insert_new_message_commit(p)
        \/ \E c \in ChannelIds, invited_by \in Users,
              user_ids \in UserIdLists, group_ids \in GroupIdLists :
                add_members_to_channel_begin(p, c, invited_by, user_ids,
                                             group_ids)
        \/ add_members_to_channel_commit(p)
        \/ \E id \in KnownMessageIds \ {None}, u \in Users,
              name \in ReactionNames :
                add_reaction_to_message_begin(p, id, u, name)
        \/ add_reaction_to_message_commit(p)

SpecConc == InitConc /\ [][NextConc]_vars

\* C3 (specification SpecConc): when joins of the same (channel, user) run
\* concurrently (join_channel, the auto-join of insert_new_message,
\* add_members_to_channel) with existence check and insert interleaved, the
\* store never holds two membership rows for the pair
C3_ConcurrentJoinsKeepPairUnique ==
    \A c \in ChannelIds, u \in Users :
        Cardinality(MembershipRows(members, c, u)) < 2

\* C4 (specification SpecConc): when two add_reaction_to_message calls with
\* the same (message_id, user_id, name) run concurrently with existence check
\* and insert interleaved, the store never holds two message_reaction rows
\* for the tuple
C4_ConcurrentReactionsKeepTupleUnique ==
    \A r \in reactions :
        ExistingReactions(reactions, r.message_id, r.user_id, r.name) = {r}

---------------------------------------------------------------------------
(* insert_new_message seen commit by commit.  One session runs               *)
(* insert_new_message: the existence query of join_channel, the commit of   *)
(* the membership row (join_channel opens and commits its own session) and  *)
(* the commit of the message row are three steps, and a reader sees the     *)
(* store between them.  leave_channel and remove_members_from_channel are   *)
(* called between two posts.                                                *)

NextPost ==
    \/ \E c \in ChannelIds, u \in Users : insert_new_message_begin("p1", c, u)
    \/ join_channel_commit("p1")
    \/ insert_new_message_commit("p1")
    \/ \E c \in ChannelIds, u \in Users :
            procs["p1"].pc = "idle" /\ leave_channel(c, u)
    \/ \E c \in ChannelIds, u \in Users :
            procs["p1"].pc = "idle" /\ remove_members_from_channel(c, <<u>>)

SpecPost == InitMsg /\ [][NextPost]_vars

\* the session is about to add the message row: the author's row is there
C15_State ==
    procs["p1"].pc = "message_insert" =>
        Cardinality(MembershipRows(members, procs["p1"].channel_id,
                                   procs["p1"].user_id)) = 1

\* the step that makes a message row visible finds the author's membership
\* row in the store and leaves the membership table alone; the step that
\* commits the auto-join adds one row for a pair that had none and keeps
\* every other row
C15_Step ==
    /\ \A m \in messages' \ messages :
            /\ MembershipRows(members, m.channel_id, m.user_id) /= {}
            /\ members' = members
    /\ (procs["p1"].pc = "join_insert" /\ procs'["p1"].pc /= "join_insert") =>
            /\ members \subseteq members'
            /\ MembershipRows(members, procs["p1"].channel_id,
                              procs["p1"].user_id) = {}
            /\ Cardinality(members' \ members) = 1
            /\ messages' = messages
    /\ (procs["p1"].pc = "idle" /\ procs'["p1"].pc = "message_insert") =>
            /\ members' = members
            /\ MembershipRows(members, procs'["p1"].channel_id,
                              procs'["p1"].user_id) /= {}

\* C15 (specification SpecPost): insert_new_message joins the author before
\* the message is committed: whenever a message row of author a in channel c
\* becomes visible, a membership row for (c, a) is already stored, and the
\* auto-join adds no second row for a pair that has one and changes no
\* stored row
C15_AutoJoinBeforeMessage == []C15_State /\ [][C15_Step]_vars

\* a message of an author who was joined by the post that stored it
C15_Witness ==
    \E m \in messages, r \in members :
        /\ r.channel_id = m.channel_id
        /\ r.user_id = m.user_id
        /\ r.joined_at >= 3
        /\ r.joined_at < m.created_at

---------------------------------------------------------------------------
(* The message routes of routers/channels.py.  A route answers "OK" or the  *)
(* HTTPException it raises; it touches the store only when it answers "OK". *)
(* Channels carry no access_control, so has_access lets every user through  *)
(* on a standard channel.                                                   *)

Routes == {"list", "get", "thread", "pinned", "post", "pin", "update",
           "reaction_add", "reaction_remove", "delete"}

\* routes that name no message, and routes that look the message up before
\* they check the caller
ChannelRoutes == {"list", "thread", "pinned", "post"}
MessageFirstRoutes == {"update", "delete"}

\* the check every message route makes on the caller: membership for a group
\* or dm channel, role or has_access otherwise
channel_gate(chans, mem, id, user) ==
    \A channel \in {c \in chans : c.id = id} :
        IF channel.type \in {"group", "dm"}
        THEN is_user_channel_member(mem, id, user)
        ELSE TRUE

\* the checks on the message of the path: it exists, in the channel of the path
message_check(msgs, id, message_id) ==
    IF MessageRows(msgs, message_id) = {} THEN "NotFound"
    ELSE IF \E m \in MessageRows(msgs, message_id) : m.channel_id /= id
    THEN "BadRequest"
    ELSE "OK"

\* what a route answers, its checks taken in the order of the handler
route_response(route, chans, mem, msgs, id, message_id, user) ==
    IF \A c \in chans : c.id /= id THEN "NotFound"
    ELSE IF route \in ChannelRoutes
    THEN IF channel_gate(chans, mem, id, user) THEN "OK" ELSE "Forbidden"
    ELSE IF route \in MessageFirstRoutes
    THEN IF message_check(msgs, id, message_id) /= "OK"
         THEN message_check(msgs, id, message_id)
         ELSE IF channel_gate(chans, mem, id, user) THEN "OK" ELSE "Forbidden"
    ELSE IF ~channel_gate(chans, mem, id, user) THEN "Forbidden"
         ELSE message_check(msgs, id, message_id)

\* new_message_handler: after the insert every inactive member of a group or
\* dm channel is made active again
reactivate_members(chans, mem, id) ==
    IF \E c \in chans : c.id = id /\ c.type \in {"group", "dm"}
    THEN {IF m.channel_id = id THEN [m EXCEPT !.is_active = TRUE] ELSE m
          : m \in mem}
    ELSE mem

\* POST /{id}/messages/post
post_new_message(id, user, parent_id, reply_to_id) ==
    IF route_response("post", channels, members, messages, id, None, user)
           /= "OK"
    THEN UNCHANGED vars
    ELSE LET joins == JoinInserts(members, id, user)
             ts == IF joins THEN now + 1 ELSE now
         IN  /\ ts < deadline
             /\ members' = reactivate_members(
                    channels,
                    join_channel_members(members, id, user, now, ids.member),
                    id)
             /\ messages' = messages \cup
                    {[id |-> ids.message, user_id |-> user,
                      channel_id |-> id, reply_to_id |-> reply_to_id,
                      parent_id |-> parent_id, created_at |-> ts]}
             /\ ids' = [ids EXCEPT !.message = @ + 1,
                                   !.member = IF joins THEN @ + 1 ELSE @]
             /\ now' = ts + 1
             /\ UNCHANGED <<channels, reactions, aux>>

\* GET /{id}/messages: reading a standard channel joins the reader
get_channel_messages(id, user) ==
    IF \/ route_response("list", channels, members, messages, id, None, user)
              /= "OK"
       \/ \E c \in channels : c.id = id /\ c.type \in {"group", "dm"}
    THEN UNCHANGED vars
    ELSE join_channel(id, user)

\* POST /{id}/messages/{message_id}/reactions/add
router_add_reaction_to_message(id, message_id, user, name) ==
    IF route_response("reaction_add", channels, members, messages, id,
                      message_id, user) /= "OK"
    THEN UNCHANGED vars
    ELSE add_reaction_to_message(message_id, user, name)

\* POST /{id}/messages/{message_id}/reactions/remove
router_remove_reaction_by_id_and_user_id_and_name(id, message_id, user, name) ==
    IF route_response("reaction_remove", channels, members, messages, id,
                      message_id, user) /= "OK"
    THEN UNCHANGED vars
    ELSE remove_reaction_by_id_and_user_id_and_name(message_id, user, name)

\* DELETE /{id}/messages/{message_id}/delete
router_delete_message_by_id(id, message_id, user) ==
    IF route_response("delete", channels, members, messages, id,
                      message_id, user) /= "OK"
    THEN UNCHANGED vars
    ELSE delete_message_by_id(message_id)

\* POST /{id}/members/active: the caller's own row
update_is_active_member_by_id_and_user_id(id, user, is_active) ==
    IF ~is_user_channel_member(members, id, user)
    THEN UNCHANGED vars
    ELSE update_member_active_status(id, user, is_active)

\* POST /{id}/update/members/remove: the owner or an admin
remove_members_by_id(id, user, user_ids) ==
    IF \E c \in channels : c.id = id /\ c.user_id /= user /\ user \notin Admins
    THEN UNCHANGED vars
    ELSE remove_members_from_channel(id, user_ids)

NextRoutes ==
    \/ \E c \in ChannelIds, u \in Users, parent_id \in KnownMessageIds :
            post_new_message(c, u, parent_id, None)
    \/ \E c \in ChannelIds, u \in Users : get_channel_messages(c, u)
    \/ \E c \in ChannelIds, id \in KnownMessageIds \ {None}, u \in Users,
          name \in ReactionNames :
            router_add_reaction_to_message(c, id, u, name)
    \/ \E c \in ChannelIds, id \in KnownMessageIds \ {None}, u \in Users,
          name \in ReactionNames :
            router_remove_reaction_by_id_and_user_id_and_name(c, id, u, name)
    \/ \E c \in ChannelIds, id \in KnownMessageIds \ {None}, u \in Users :
            router_delete_message_by_id(c, id, u)
    \/ \E c \in ChannelIds, u \in Users, is_active \in BOOLEAN :
            update_is_active_member_by_id_and_user_id(c, u, is_active)
    \/ \E c \in ChannelIds, u \in Users, user_ids \in UserIdLists :
            remove_members_by_id(c, u, user_ids)

SpecRoutes == InitMsg /\ [][NextRoutes]_vars

\* C13 (specification SpecRoutes): get_channels_by_user_id(u) returns every
\* group/dm channel in which u has a membership row, whether the row is
\* active or inactive
C13_ListsEveryMembershipChannel ==
    \A c \in channels, u \in Users :
        (c.type \in {"group", "dm"} /\ MembershipRows(members, c.id, u) /= {})
            => c \in get_channels_by_user_id(channels, members, u)

\* C14 (specification SpecRoutes): for a channel of type group or dm, every
\* message route answers Forbidden to a caller, admin included, who has no
\* membership row in the channel
C14_NonMemberForbidden ==
    \A route \in Routes, c \in channels, u \in Users,
       message_id \in KnownMessageIds \ {None} :
        (c.type \in {"group", "dm"}
            /\ ~is_user_channel_member(members, c.id, u))
            => route_response(route, channels, members, messages, c.id,
                              message_id, u) = "Forbidden"

---------------------------------------------------------------------------
(* The pipeline filter chain of routers/pipelines.py.  `models` is the      *)
(* registry (request.app.state.MODELS), a dict: here the sequence of its    *)
(* values in dict order.  An entry carries "pipeline" metadata or not and a *)
(* urlIdx or not; an absent key is the empty set.  A payload is the list of *)
(* the transformations it went through.                                     *)

\* the ids of the registry, in dict order
ModelIds == <<"f1", "f2", "m">>

\* the model a request may name in payload["model"]
TargetModelIds == {"m", "f2"}

\* config.OPENAI_API_KEYS: the connection of index 0 has a key, that of
\* index 1 has none
OPENAI_API_KEYS == <<"key", "">>

\* filter.get("urlIdx"): None ({}) or an index of the connection lists
UrlIdxs == {{}} \cup {{i - 1} : i \in DOMAIN OPENAI_API_KEYS}

\* the "pipeline" metadata an entry may carry
PipelineMetadata ==
    {[type |-> "pipe", pipelines |-> <<>>, priority |-> 0]}
    \cup {[type |-> "filter", pipelines |-> ps, priority |-> pr] :
             ps \in {<<"*">>, <<"m">>}, pr \in 0 .. MaxPriority}

\* the registry entries of one id
ModelEntries(id) ==
    {[id |-> id, pipeline |-> pl, urlIdx |-> u] :
        pl \in {{}} \cup {{p} : p \in PipelineMetadata}, u \in UrlIdxs}

\* the registries
Registries ==
    {<<f1, f2, m>> : f1 \in ModelEntries(ModelIds[1]),
                     f2 \in ModelEntries(ModelIds[2]),
                     m \in ModelEntries(ModelIds[3])}

\* models[model_id]
ModelOf(models, model_id) ==
    models[CHOOSE k \in DOMAIN models : models[k].id = model_id]

\* the condition of the list comprehension of get_sorted_filters
IsFilterFor(model, model_id) ==
    \E p \in model.pipeline :
        /\ p.type = "filter"
        /\ \/ p.pipelines = <<"*">>
           \/ \E k \in DOMAIN p.pipelines : p.pipelines[k] = model_id

\* x["pipeline"]["priority"]
Priority(model) == (CHOOSE p \in model.pipeline : TRUE).priority

\* fault injection: the filters in registry order
unsorted(list) == list

\* sorted(filters, key = priority): ascending, entries of equal priority in
\* the order of the list
RECURSIVE sorted(_)
sorted(list) ==
    IF list = <<>> THEN <<>>
    ELSE LET x == Head(list)
             rest == sorted(Tail(list))
             k == Cardinality({i \in DOMAIN rest :
                                  Priority(rest[i]) < Priority(x)})
         IN  SubSeq(rest, 1, k) \o <<x>> \o SubSeq(rest, k + 1, Len(rest))

\* get_sorted_filters
get_sorted_filters(model_id, models) ==
    sorted(SelectSeq(models, LAMBDA model : IsFilterFor(model, model_id)))

\* process_pipeline_inlet_filter: the stages of the loop
inlet_filters(model, sorted_filters) ==
    IF model.pipeline /= {} THEN Append(sorted_filters, model)
    ELSE sorted_filters

\* fault injection: the outlet loop with the target model after the filters
self_after_filters(model, sorted_filters) ==
    IF model.pipeline /= {} THEN sorted_filters \o <<model>>
    ELSE sorted_filters

\* process_pipeline_outlet_filter: the stages of the loop
outlet_filters(model, sorted_filters) ==
    IF model.pipeline /= {} THEN <<model>> \o sorted_filters
    ELSE sorted_filters

\* the loop reaches the POST for this stage: int(urlIdx) succeeds and the
\* connection has a key
HasConnection(filter) ==
    \E i \in filter.urlIdx : OPENAI_API_KEYS[i + 1] /= ""

\* what a POST to a stage may end in: a 2xx answer with a JSON body; an error
\* status with a JSON body that has "detail"; an error status with a JSON
\* body without it; an answer without a JSON body or no answer at all
Outcomes == {"ok", "error_detail", "error_json", "failed"}

\* the payload a request starts with
OriginalPayload == <<"request">>

\* the JSON body of the answer of a stage to `body`
ResponseJson(filter, body, outcome) ==
    CASE outcome = "ok" -> Append(body, filter.id)
      [] outcome = "error_detail" -> <<"detail", filter.id>>
      [] outcome = "error_json" -> <<"error", filter.id>>

\* payload after the try block of one stage: response.json() is assigned
\* before response.raise_for_status() is called
PayloadAfter(filter, payload, outcome) ==
    IF outcome = "failed" THEN payload
    ELSE ResponseJson(filter, payload, outcome)

\* the tables, the clock and the sessions, which the filter chain leaves alone
store == <<channels, members, messages, reactions, now, ids, procs, deadline, bot>>

\* a request enters the chain
StartRun(kind, models, model_id, stages) ==
    /\ pipe.pc = "idle"
    /\ pipe' = [pc |-> "running", kind |-> kind, models |-> models,
                model_id |-> model_id, sorted_filters |-> stages,
                payload |-> OriginalPayload, calls |-> <<>>,
                exception |-> <<>>]
    /\ UNCHANGED store

\* process_pipeline_inlet_filter up to the loop
process_pipeline_inlet_filter(models, model_id) ==
    StartRun("inlet", models, model_id,
             inlet_filters(ModelOf(models, model_id),
                           get_sorted_filters(model_id, models)))

\* process_pipeline_outlet_filter up to the loop
process_pipeline_outlet_filter(models, model_id) ==
    StartRun("outlet", models, model_id,
             outlet_filters(ModelOf(models, model_id),
                            get_sorted_filters(model_id, models)))

\* one stage of the loop without a POST: int(urlIdx) fails or the key is empty
skip_filter ==
    /\ pipe.pc = "running"
    /\ pipe.sorted_filters /= <<>>
    /\ ~HasConnection(Head(pipe.sorted_filters))
    /\ pipe' = [pipe EXCEPT !.sorted_filters = Tail(@)]
    /\ UNCHANGED store

\* fault injection: the inlet loop swallows the exception, as the outlet does
inlet_filter_continuing(outcome) ==
    /\ pipe.pc = "running"
    /\ pipe.kind = "inlet"
    /\ pipe.sorted_filters /= <<>>
    /\ HasConnection(Head(pipe.sorted_filters))
    /\ LET filter == Head(pipe.sorted_filters)
       IN  pipe' = [pipe EXCEPT
                !.sorted_filters = Tail(@),
                !.payload = PayloadAfter(filter, @, outcome),
                !.calls = Append(@, [id |-> filter.id, body |-> pipe.payload,
                                     outcome |-> outcome])]
    /\ UNCHANGED store

\* one stage of the inlet loop with its POST; an error answer that has
\* "detail" raises Exception(response.status, res["detail"]) out of
\* process_pipeline_inlet_filter
inlet_filter(outcome) ==
    /\ pipe.pc = "running"
    /\ pipe.kind = "inlet"
    /\ pipe.sorted_filters /= <<>>
    /\ HasConnection(Head(pipe.sorted_filters))
    /\ LET filter == Head(pipe.sorted_filters)
       IN  pipe' = [pipe EXCEPT
                !.pc = IF outcome = "error_detail" THEN "raised" ELSE @,
                !.exception =
                    IF outcome = "error_detail"
                    THEN ResponseJson(filter, pipe.payload, outcome) ELSE @,
                !.sorted_filters = Tail(@),
                !.payload = PayloadAfter(filter, @, outcome),
                !.calls = Append(@, [id |-> filter.id, body |-> pipe.payload,
                                     outcome |-> outcome])]
    /\ UNCHANGED store

\* one stage of the outlet loop with its POST; the exception raised for
\* "detail" is caught on the spot
outlet_filter(outcome) ==
    /\ pipe.pc = "running"
    /\ pipe.kind = "outlet"
    /\ pipe.sorted_filters /= <<>>
    /\ HasConnection(Head(pipe.sorted_filters))
    /\ LET filter == Head(pipe.sorted_filters)
       IN  pipe' = [pipe EXCEPT
                !.sorted_filters = Tail(@),
                !.payload = PayloadAfter(filter, @, outcome),
                !.calls = Append(@, [id |-> filter.id, body |-> pipe.payload,
                                     outcome |-> outcome])]
    /\ UNCHANGED store

\* return payload
return_payload ==
    /\ pipe.pc = "running"
    /\ pipe.sorted_filters = <<>>
    /\ pipe' = [pipe EXCEPT !.pc = "returned"]
    /\ UNCHANGED store

NextPipe ==
    \/ /\ pipe.pc = "idle"
       /\ \E models \in Registries, model_id \in TargetModelIds :
            process_pipeline_inlet_filter(models, model_id)
    \/ /\ pipe.pc = "idle"
       /\ \E models \in Registries, model_id \in TargetModelIds :
            process_pipeline_outlet_filter(models, model_id)
    \/ skip_filter
    \/ \E outcome \in Outcomes : inlet_filter(outcome)
    \/ \E outcome \in Outcomes : outlet_filter(outcome)
    \/ return_payload

SpecPipe == Init /\ [][NextPipe]_vars

---------------------------------------------------------------------------
(* Properties of the filter chain (specification SpecPipe) *)

\* the registry entry of the k-th call of the run
C18_Called(k) == ModelOf(pipe.models, pipe.calls[k].id)

\* the target model of the run, and whether the loop posts to it
C18_Target == ModelOf(pipe.models, pipe.model_id)

\* the number of calls of the run made to the stage `id`
C18_Count(id) == Cardinality({k \in DOMAIN pipe.calls : pipe.calls[k].id = id})

\* the calls to filter stages, positions From .. To of the log, go to
\* eligible filters in ascending priority, and to no filter twice
C18_FiltersAscending(From, To) ==
    /\ \A k \in From .. To : IsFilterFor(C18_Called(k), pipe.model_id)
    /\ \A j, k \in From .. To :
            j < k => /\ Priority(C18_Called(j)) <= Priority(C18_Called(k))
                     /\ pipe.calls[j].id /= pipe.calls[k].id

\* C18 (specification SpecPipe): process_pipeline_inlet_filter posts to the
\* stages eligible for the target model M (type filter, pipelines ["*"] or
\* containing M) in ascending priority and then, if M's entry carries
\* pipeline metadata, to M itself last: a run that returns has called every
\* eligible filter that has a connection once, in that order, then M; a run
\* under way or ended by an error has made the first calls of that order
C18_InletOrder ==
    (pipe.pc /= "idle" /\ pipe.kind = "inlet") =>
        LET n == Len(pipe.calls)
            self == C18_Target.pipeline /= {} /\ HasConnection(C18_Target)
            last_is_self == /\ n > 0
                            /\ self
                            /\ pipe.calls[n].id = pipe.model_id
                            /\ \/ pipe.sorted_filters = <<>>
                               \/ ~IsFilterFor(C18_Target, pipe.model_id)
                               \/ C18_Count(pipe.model_id) = 2
        IN  /\ C18_FiltersAscending(1, IF last_is_self THEN n - 1 ELSE n)
            /\ pipe.pc = "returned" =>
                /\ self => last_is_self
                /\ \A k \in DOMAIN pipe.models :
                      LET model == pipe.models[k]
                      IN  (IsFilterFor(model, pipe.model_id)
                              /\ HasConnection(model))
                            => C18_Count(model.id)
                                 = IF self /\ model.id = pipe.model_id
                                   THEN 2 ELSE 1

\* an inlet run that returned after calling f2 (priority 0), f1 (priority 1)
\* and the target m, which carries pipeline metadata
C18_Witness ==
    /\ pipe.pc = "returned"
    /\ pipe.kind = "inlet"
    /\ pipe.model_id = "m"
    /\ [k \in DOMAIN pipe.calls |-> pipe.calls[k].id] = <<"f2", "f1", "m">>
    /\ Priority(pipe.models[2]) < Priority(pipe.models[1])

\* C19 (specification SpecPipe): process_pipeline_outlet_filter posts to the
\* target model M first when M's entry carries pipeline metadata, and then
\* to the eligible filters in ascending priority, the order of the inlet: a
\* run that returns has called M, then every eligible filter that has a
\* connection once in that order; a run under way has made the first calls
\* of that order
C19_OutletOrder ==
    (pipe.pc /= "idle" /\ pipe.kind = "outlet") =>
        LET n == Len(pipe.calls)
            self == C18_Target.pipeline /= {} /\ HasConnection(C18_Target)
            first_is_self == n > 0 /\ self
        IN  /\ first_is_self => pipe.calls[1].id = pipe.model_id
            /\ C18_FiltersAscending(IF first_is_self THEN 2 ELSE 1, n)
            /\ pipe.pc = "returned" =>
                /\ self => n > 0
                /\ \A k \in DOMAIN pipe.models :
                      LET model == pipe.models[k]
                      IN  (IsFilterFor(model, pipe.model_id)
                              /\ HasConnection(model))
                            => C18_Count(model.id)
                                 = IF self /\ model.id = pipe.model_id
                                   THEN 2 ELSE 1

\* an outlet run that returned after calling the target m, which carries
\* pipeline metadata, then f2 (priority 0) and f1 (priority 1)
C19_Witness ==
    /\ pipe.pc = "returned"
    /\ pipe.kind = "outlet"
    /\ pipe.model_id = "m"
    /\ [k \in DOMAIN pipe.calls |-> pipe.calls[k].id] = <<"m", "f2", "f1">>
    /\ Priority(pipe.models[2]) < Priority(pipe.models[1])

\* the response of the latest call before position k that answered
\* successfully, or the original payload
C20_LastSuccess(k) ==
    LET ok == {j \in 1 .. (k - 1) : pipe.calls[j].outcome = "ok"}
    IN  IF ok = {} THEN OriginalPayload
        ELSE LET j == CHOOSE i \in ok : \A h \in ok : h <= i
             IN  ResponseJson(C18_Called(j), pipe.calls[j].body, "ok")

\* C20 (specification SpecPipe): the payload is pipelined: the body posted to
\* a stage is the response of the latest earlier stage that answered
\* successfully (the original payload if there is none), a stage without a
\* urlIdx or without a key gets no call and leaves the payload as it is, and
\* the run returns the response of the last successful stage
C20_PayloadPipelined ==
    pipe.pc /= "idle" =>
        /\ \A k \in DOMAIN pipe.calls :
                /\ pipe.calls[k].body = C20_LastSuccess(k)
                /\ HasConnection(C18_Called(k))
        /\ pipe.pc = "returned" =>
                pipe.payload = C20_LastSuccess(Len(pipe.calls) + 1)

\* a run in which a stage answered an error with "detail" has ended there,
\* raising the status and detail of that answer
C21_State ==
    (pipe.pc /= "idle" /\ pipe.kind = "inlet") =>
        /\ \A k \in DOMAIN pipe.calls :
                pipe.calls[k].outcome = "error_detail"
                    => /\ k = Len(pipe.calls)
                       /\ pipe.pc = "raised"
                       /\ pipe.exception
                            = ResponseJson(C18_Called(k), pipe.calls[k].body,
                                           "error_detail")
        /\ pipe.pc = "raised" =>
                /\ pipe.calls /= <<>>
                /\ pipe.calls[Len(pipe.calls)].outcome = "error_detail"

\* a run that raised makes no further step
C21_Step == pipe.pc = "raised" => pipe' = pipe

\* C21 (specification SpecPipe): when an inlet stage answers with an error
\* status and a JSON body that has "detail", process_pipeline_inlet_filter
\* stops at once, calls no later stage, and raises that status and detail to
\* its caller
C21_InletAbortsOnDetail == []C21_State /\ [][C21_Step]_vars

\* an inlet run ended by the error of its first stage while stages were
\* still to come
C21_Witness ==
    /\ pipe.pc = "raised"
    /\ pipe.kind = "inlet"
    /\ Len(pipe.calls) = 1
    /\ \E k \in DOMAIN pipe.sorted_filters :
            HasConnection(pipe.sorted_filters[k])

\* C22 (specification SpecPipe): when an outlet stage answers with an error
\* status and a JSON body that has "detail", process_pipeline_outlet_filter
\* stops at once, calls no later stage, and raises the error to its caller
\* instead of returning a payload
C22_OutletAbortsOnDetail ==
    (pipe.pc /= "idle" /\ pipe.kind = "outlet") =>
        \A k \in DOMAIN pipe.calls :
            pipe.calls[k].outcome = "error_detail"
                => /\ k = Len(pipe.calls)
                   /\ pipe.pc = "raised"

\* the stage of call k failed without ending the run: no answer or no JSON
\* body, or an error status with a JSON body without "detail"
C23_FailedSoftly(k) == pipe.calls[k].outcome \in {"failed", "error_json"}

\* C23 (specification SpecPipe): best-effort continuation: after a stage that
\* fails without aborting the chain (connection failure, or an error answer
\* without "detail") the payload passed to the next stage, and the payload
\* returned, is the last one produced by a successful stage, or the original
\* payload, and never the body of the failed answer; stated of runs in which
\* no stage answered an error with "detail"
C23_BestEffortContinuation ==
    (pipe.pc /= "idle"
        /\ \A k \in DOMAIN pipe.calls : pipe.calls[k].outcome /= "error_detail")
    => /\ \A k \in DOMAIN pipe.calls :
            (k > 1 /\ C23_FailedSoftly(k - 1))
                => pipe.calls[k].body = C20_LastSuccess(k)
       /\ (pipe.pc = "returned" /\ pipe.calls /= <<>>
              /\ C23_FailedSoftly(Len(pipe.calls)))
            => pipe.payload = C20_LastSuccess(Len(pipe.calls) + 1)

\* C29 (specification SpecPipe): in one inlet run and in one outlet run each
\* registry entry is called at most once, also when the target model is
\* itself a filter whose pipelines list is ["*"] or names it
C29_EachEntryCalledAtMostOnce ==
    pipe.pc /= "idle" =>
        \A k \in DOMAIN pipe.models : C18_Count(pipe.models[k].id) <= 1

\* the routes that name a message in the path
MessageRoutes == Routes \ ChannelRoutes

\* C24 (specification SpecRoutes): on every message-scoped route (get, pin,
\* update, reaction add and remove, delete) a request by a caller with access
\* to the channel of the path, for a stored message of another channel,
\* answers NotFound
C24_ChannelMismatchNotFound ==
    \A route \in MessageRoutes, c \in channels, m \in messages, u \in Users :
        (m.channel_id /= c.id /\ channel_gate(channels, members, c.id, u))
            => route_response(route, channels, members, messages, c.id,
                              m.id, u) = "NotFound"

---------------------------------------------------------------------------
(* model_response_handler of routers/channels.py: the thread it reads *)

\* list[::-1]
Reversed(list) == [i \in DOMAIN list |-> list[Len(list) + 1 - i]]

\* message.parent_id if message.parent_id else message.id
EffectiveParent(message) ==
    IF message.parent_id /= None THEN message.parent_id ELSE message.id

\* thread_messages of model_response_handler: get_messages_by_parent_id with
\* its default skip and limit, reversed
thread_messages(msgs, reacts, channel_id, message) ==
    Reversed(get_messages_by_parent_id(
                 msgs, reacts, channel_id, EffectiveParent(message), 0,
                 DefaultLimit))

\* a store in which the group channel holds one message of u1
InitLongThread ==
    /\ channels = {[id |-> 1, user_id |-> "u1", type |-> "group"],
                   [id |-> 2, user_id |-> "u1", type |-> ""]}
    /\ members = insert_new_channel_memberships(
                     "group", "u1", <<"u2">>, <<>>, 1, 1, 1)
    /\ messages = {[id |-> 1, user_id |-> "u1", channel_id |-> 1,
                    reply_to_id |-> None, parent_id |-> None,
                    created_at |-> 3]}
    /\ reactions = {}
    /\ now = 4
    /\ ids = [channel |-> 3, member |-> 3, message |-> 2, reaction |-> 1]
    /\ procs = [p \in Procs |-> Idle]
    /\ deadline = MaxThreadClock
    /\ pipe = NoRun
    /\ bot = NoHandler

\* replies are posted under the first message, which may be deleted
NextLongThread ==
    \/ \E u \in {"u1"} : insert_new_message(1, u, 1, None)
    \/ delete_message_by_id(1)

SpecLongThread == InitLongThread /\ [][NextLongThread]_vars

\* C25 (specification SpecLongThread): for a triggering message with
\* effective parent p (its parent_id, or its own id) whose root is stored,
\* the thread read by model_response_handler holds every message of the
\* thread under p, the root and all replies with parent_id = p, each once,
\* oldest first, whatever the length of the thread
C25_FullThreadContext ==
    \A key \in {<<m.channel_id, EffectiveParent(m)>> : m \in messages} :
        LET message == CHOOSE m \in messages :
                            <<m.channel_id, EffectiveParent(m)>> = key
            p == key[2]
            thread == {m \in messages : m.id = p \/ m.parent_id = p}
            read == thread_messages(messages, reactions, message.channel_id,
                                    message)
        IN  MessageRows(messages, p) /= {} =>
                /\ {read[i].id : i \in DOMAIN read} = {m.id : m \in thread}
                /\ Len(read) = Cardinality(thread)
                /\ \A i, j \in DOMAIN read :
                       i < j => read[i].created_at <= read[j].created_at

\* C27 (specification Spec): in every reachable state a membership row with
\* status 'left' has is_active false: a user who left a channel is not marked
\* active again while the row is stored, after any sequence of leave_channel,
\* join_channel, update_member_active_status and DM re-open
C27_LeftRowsInactive ==
    \A m \in members : m.status = "left" => ~m.is_active

\* C28 (specification SpecThread): every message returned by
\* get_messages_by_parent_id(channel_id = c, parent_id = p, ...), the
\* appended parent included, has channel_id = c, also when p is the id of a
\* message stored in another channel
C28_ThreadReadsStayInChannel ==
    \A c \in ChannelIds, p \in KnownMessageIds \ {None}, L \in 0 .. MaxLimit :
        ~get_messages_by_parent_id_raises(messages, c, p, 0, L) =>
            LET page == get_messages_by_parent_id(messages, reactions, c, p,
                                                  0, L)
            IN  \A i \in DOMAIN page : page[i].channel_id = c

\* C30 (specification SpecThread): get_message_by_id terminates for every
\* message in every reachable store
C30_LookupTerminates ==
    \A m \in messages : ~get_message_by_id_raises(messages, m.id, {})

---------------------------------------------------------------------------
\* model_response_handler: which models answer a posted message, and how
\* (routers/channels.py).  One handler runs at a time, for the message posted
\* last; messages are posted between two runs, at top level or in the thread
\* of the first message, as replies to any message.

\* the ids get_filtered_models returns; "mx" is mentioned but not a known model
MODELS == {"m1", "m2"}
\* what extract_mentions can find in the content: model mentions of known and
\* unknown models, and a mention of another type that carries a model's id
Mentions ==
    {[id |-> "m1", id_type |-> "M"], [id |-> "m2", id_type |-> "M"],
     [id |-> "mx", id_type |-> "M"], [id |-> "m2", id_type |-> "U"]}
MentionLists == UNION {[1 .. n -> Mentions] : n \in 0 .. MaxMentions}

SeqRange(list) == {list[i] : i \in DOMAIN list}

\* message.reply_to_message.meta.get("model_id"): the model named by the stored
\* message replied to, as a set (empty when there is none)
reply_to_model(msgs, meta, message) ==
    {x.model_id : x \in {y \in meta : /\ message.reply_to_id /= None
                                      /\ y.message_id = message.reply_to_id
                                      /\ \E r \in msgs : r.id = y.message_id}}

\* for mention in mentions: if mention["id_type"] == "M" and mention["id"] not
\* in model_mentions: model_mentions[mention["id"]] = mention
RECURSIVE add_model_mentions(_, _)
add_model_mentions(acc, mentions) ==
    IF mentions = <<>> THEN acc
    ELSE LET mention == Head(mentions)
         IN  add_model_mentions(
                 IF mention.id_type = "M" /\ mention.id \notin SeqRange(acc)
                 THEN Append(acc, mention.id) ELSE acc,
                 Tail(mentions))

\* the keys of the dict model_mentions in insertion order: the reply-to model,
\* then the mentioned models
model_mentions(msgs, meta, message, mentions) ==
    add_model_mentions(
        LET reply == reply_to_model(msgs, meta, message)
        IN  IF reply = {} THEN <<>> ELSE <<CHOOSE model_id \in reply : TRUE>>,
        mentions)

\* "u1" has posted message 1 mentioning "m1", and the handler has answered it
\* with the placeholder 2 and returned
InitBot ==
    /\ channels = {[id |-> 1, user_id |-> "u1", type |-> "group"],
                   [id |-> 2, user_id |-> "u1", type |-> ""]}
    /\ members = insert_new_channel_memberships(
                     "group", "u1", <<"u2">>, <<>>, 1, 1, 1)
    /\ messages = {[id |-> 1, user_id |-> "u1", channel_id |-> 1,
                    reply_to_id |-> None, parent_id |-> None,
                    created_at |-> 3],
                   [id |-> 2, user_id |-> "u1", channel_id |-> 1,
                    reply_to_id |-> None, parent_id |-> 1,
                    created_at |-> 4]}
    /\ reactions = {}
    /\ now = 5
    /\ ids = [channel |-> 3, member |-> 3, message |-> 3, reaction |-> 1]
    /\ procs = [p \in Procs |-> Idle]
    /\ deadline = MaxBotClock
    /\ pipe = NoRun
    /\ bot = [NoHandler EXCEPT
                 !.message_id = 1,
                 !.meta = {[message_id |-> 2, model_id |-> "m1"]}]

\* the background task of post_new_message starts: the mentions are read and
\* the response set is built
model_response_handler(message, mentions) ==
    /\ bot.pc /= "running"
    /\ message.id = ids.message - 1
    /\ message.id /= bot.message_id
    /\ \A x \in bot.meta : x.message_id /= message.id
    /\ ~get_message_by_id_raises(messages, message.id, {})
    /\ LET model_ids == model_mentions(messages, bot.meta, message, mentions)
       IN  bot' = [bot EXCEPT
               !.pc = "running",
               !.channel_id = message.channel_id,
               !.message_id = message.id,
               !.parent_id = EffectiveParent(message),
               !.user_id = message.user_id,
               !.model_mentions = model_ids,
               !.handled = <<>>]
    /\ UNCHANGED <<channels, members, messages, reactions, now, ids, procs, deadline, pipe>>

\* an exception of the loop body ends the whole loop
respond_or_stop(outcome) ==
    /\ bot.pc = "running"
    /\ Len(bot.handled) < Len(bot.model_mentions)
    /\ LET model_id == bot.model_mentions[Len(bot.handled) + 1]
       IN  IF model_id \notin MODELS
           THEN /\ bot' = [bot EXCEPT !.handled = Append(@,
                        [model_id |-> model_id, outcome |-> "unknown",
                         placeholder |-> None])]
                /\ UNCHANGED <<members, messages, ids, now>>
           ELSE IF \/ get_messages_by_parent_id_raises(
                          messages, bot.channel_id, bot.parent_id, 0,
                          DefaultLimit)
                   \/ route_response("post", channels, members, messages,
                          bot.channel_id, None, bot.user_id) /= "OK"
           THEN /\ bot' = [NoHandler EXCEPT !.message_id = bot.message_id,
                                            !.meta = bot.meta]
                /\ UNCHANGED <<members, messages, ids, now>>
           ELSE LET joins == JoinInserts(members, bot.channel_id, bot.user_id)
                    ts == IF joins THEN now + 1 ELSE now
                IN  /\ ts < deadline
                    /\ members' = reactivate_members(
                           channels,
                           join_channel_members(members, bot.channel_id,
                               bot.user_id, now, ids.member),
                           bot.channel_id)
                    /\ messages' = messages \cup
                           {[id |-> ids.message, user_id |-> bot.user_id,
                             channel_id |-> bot.channel_id,
                             reply_to_id |-> None,
                             parent_id |-> bot.parent_id, created_at |-> ts]}
                    /\ ids' = [ids EXCEPT
                                  !.message = @ + 1,
                                  !.member = IF joins THEN @ + 1 ELSE @]
                    /\ now' = ts + 1
                    /\ bot' = IF outcome = "raised"
                              THEN [NoHandler EXCEPT
                                       !.message_id = bot.message_id,
                                       !.meta = bot.meta \cup
                                           {[message_id |-> ids.message,
                                             model_id |-> model_id]}]
                              ELSE [bot EXCEPT
                                       !.handled = Append(@,
                                           [model_id |-> model_id,
                                            outcome |-> outcome,
                                            placeholder |-> ids.message]),
                                       !.meta = @ \cup
                                           {[message_id |-> ids.message,
                                             model_id |-> model_id]}]
    /\ UNCHANGED <<channels, reactions, procs, deadline, pipe>>

\* one turn of `for mention in model_mentions.values()`: an unknown model is
\* passed over; for a known one the thread is read, the placeholder is posted
\* by new_message_handler and the completion is written into it; an exception
\* anywhere in the body is logged and the loop goes on
respond(outcome) ==
    /\ bot.pc = "running"
    /\ Len(bot.handled) < Len(bot.model_mentions)
    /\ LET model_id == bot.model_mentions[Len(bot.handled) + 1]
       IN  IF model_id \notin MODELS
           THEN /\ bot' = [bot EXCEPT !.handled = Append(@,
                        [model_id |-> model_id, outcome |-> "unknown",
                         placeholder |-> None])]
                /\ UNCHANGED <<members, messages, ids, now>>
           ELSE IF \/ get_messages_by_parent_id_raises(
                          messages, bot.channel_id, bot.parent_id, 0,
                          DefaultLimit)
                   \/ route_response("post", channels, members, messages,
                          bot.channel_id, None, bot.user_id) /= "OK"
           THEN /\ bot' = [bot EXCEPT !.handled = Append(@,
                        [model_id |-> model_id, outcome |-> "raised",
                         placeholder |-> None])]
                /\ UNCHANGED <<members, messages, ids, now>>
           ELSE LET joins == JoinInserts(members, bot.channel_id, bot.user_id)
                    ts == IF joins THEN now + 1 ELSE now
                IN  /\ ts < deadline
                    /\ members' = reactivate_members(
                           channels,
                           join_channel_members(members, bot.channel_id,
                               bot.user_id, now, ids.member),
                           bot.channel_id)
                    /\ messages' = messages \cup
                           {[id |-> ids.message, user_id |-> bot.user_id,
                             channel_id |-> bot.channel_id,
                             reply_to_id |-> None,
                             parent_id |-> bot.parent_id, created_at |-> ts]}
                    /\ ids' = [ids EXCEPT
                                  !.message = @ + 1,
                                  !.member = IF joins THEN @ + 1 ELSE @]
                    /\ now' = ts + 1
                    /\ bot' = [bot EXCEPT
                           !.handled = Append(@,
                               [model_id |-> model_id, outcome |-> outcome,
                                placeholder |-> ids.message]),
                           !.meta = @ \cup {[message_id |-> ids.message,
                                             model_id |-> model_id]}]
    /\ UNCHANGED <<channels, reactions, procs, deadline, pipe>>

\* the loop is over (`return True`), or there was no model to answer (`return
\* False`): the locals are gone, the stored messages keep their meta
handler_returns ==
    /\ bot.pc = "running"
    /\ Len(bot.handled) = Len(bot.model_mentions)
    /\ bot' = [NoHandler EXCEPT !.message_id = bot.message_id,
                                !.meta = bot.meta]
    /\ UNCHANGED <<channels, members, messages, reactions, now, ids, procs, deadline, pipe>>

NextBot ==
    \/ /\ bot.pc /= "running"
       /\ \E parent_id \in {None, 1}, reply_to_id \in KnownMessageIds :
              post_new_message(1, "u1", parent_id, reply_to_id)
    \/ \E message \in messages, mentions \in MentionLists :
           model_response_handler(message, mentions)
    \/ \E outcome \in {"ok", "raised"} : respond(outcome)
    \/ handler_returns

SpecBot == InitBot /\ [][NextBot]_vars

\* the models mentioned with type "M" in a mention list
C26_MentionedModels(mentions) ==
    {mentions[i].id : i \in {j \in DOMAIN mentions : mentions[j].id_type = "M"}}

\* the model a stored message names in meta.model_id, for the message that
\* `message` replies to
C26_RepliedModel(message) ==
    {x.model_id : x \in {y \in bot.meta : /\ message.reply_to_id /= None
                                          /\ y.message_id = message.reply_to_id}}

\* a message was posted and its handler is about to start
C26_Posted(message) ==
    /\ bot.pc /= "running"
    /\ message.id = ids.message - 1
    /\ message.id /= bot.message_id
    /\ \A x \in bot.meta : x.message_id /= message.id

C26_ResponseSet ==
    \A message \in {m \in messages : C26_Posted(m)}, mentions \in MentionLists :
        LET answered == model_mentions(messages, bot.meta, message, mentions)
        IN  /\ SeqRange(answered) =
                   C26_RepliedModel(message) \cup C26_MentionedModels(mentions)
            /\ \A i, j \in DOMAIN answered : answered[i] = answered[j] => i = j
            /\ C26_RepliedModel(message) /= {} =>
                   answered[1] \in C26_RepliedModel(message)

C26_Running ==
    bot.pc = "running" =>
        /\ \A message \in {m \in messages : m.id = bot.message_id} :
               /\ C26_RepliedModel(message) \subseteq SeqRange(bot.model_mentions)
               /\ C26_RepliedModel(message) /= {} =>
                      bot.model_mentions[1] \in C26_RepliedModel(message)
        /\ \A i, j \in DOMAIN bot.model_mentions :
               bot.model_mentions[i] = bot.model_mentions[j] => i = j
        /\ Len(bot.handled) <= Len(bot.model_mentions)
        /\ \A i \in DOMAIN bot.handled :
               LET turn == bot.handled[i]
               IN  /\ turn.model_id = bot.model_mentions[i]
                   /\ turn.model_id \notin MODELS => turn.placeholder = None
                   /\ ( /\ turn.model_id \in MODELS
                        /\ ~get_messages_by_parent_id_raises(
                               messages, bot.channel_id, bot.parent_id, 0,
                               DefaultLimit)
                        /\ route_response("post", channels, members,
                               messages, bot.channel_id, None, bot.user_id)
                               = "OK" )
                      => /\ \E r \in messages :
                                /\ r.id = turn.placeholder
                                /\ r.channel_id = bot.channel_id
                                /\ r.parent_id = bot.parent_id
                                /\ r.id /= bot.message_id
                         /\ [message_id |-> turn.placeholder,
                             model_id |-> turn.model_id] \in bot.meta
                         /\ \A j \in DOMAIN bot.handled :
                                bot.handled[j].placeholder = turn.placeholder
                                    => j = i

\* the handler stops only when every model of the response set had its turn
C26_Step ==
    (bot.pc = "running" /\ bot'.pc /= "running")
        => Len(bot.handled) = Len(bot.model_mentions)

\* C26: the models answering a posted message are the model named by the meta
\* of the stored message it replies to, if any, and the models mentioned with
\* type "M", each once and the reply-to model first; they are processed one
\* after another in that order; each known model whose thread read and post go
\* through gets a placeholder message of its own in the thread of the posted
\* message, an unknown model gets none; and the loop ends only after the last
\* model, whatever was raised while processing an earlier one
C26_ResponseSetAndIsolation ==
    [](C26_ResponseSet /\ C26_Running) /\ [][C26_Step]_vars

\* replying to the placeholder of "m1" and mentioning "m2": "m1" came first
\* and raised after its placeholder was posted, "m2" has its own placeholder
C26_Witness ==
    /\ bot.pc = "running"
    /\ bot.model_mentions = <<"m1", "m2">>
    /\ \E message \in messages :
           /\ message.id = bot.message_id
           /\ C26_RepliedModel(message) = {"m1"}
    /\ Len(bot.handled) = 2
    /\ bot.handled[1].outcome = "raised"
    /\ bot.handled[2].outcome = "ok"
    /\ bot.handled[1].placeholder /= None
    /\ bot.handled[2].placeholder \notin {None, bot.handled[1].placeholder}

====
